---- MODULE Spec2Model ----
(***************************************************************************)
(* Heimdallr metrics engine (src/core/metrics.py): calculate_all_metrics   *)
(* as a state machine.  One case is drawn in Init; each action is one      *)
(* STEP of calculate_all_metrics, applied to the result mapping.           *)
(*                                                                         *)
(* Units (all quantities are integers):                                    *)
(*   zooms        voxel spacing in half millimetres (2 = 1 mm)             *)
(*   *_vol_cm3    thousandths of a cm3 (= mm3): round(.., 3)               *)
(*   SMA_cm2      thousandths of a cm2: round(.., 3)                       *)
(*   lobe volumes hundredths of a cm3: round(.., 2)                        *)
(*   HU           hundredths of a Hounsfield unit: round(.., 2)            *)
(*   percentages  hundredths of a percent: round(.., 2)                    *)
(* Axial indices are 0-based, as in the arrays of the code.                *)
(***************************************************************************)
EXTENDS Integers, Sequences, FiniteSets, TLC

VARIABLES
    case,       \* the inputs on disk: sidecar, intensity volume, mask files
    pc,         \* position in calculate_all_metrics
    modality,   \* local `modality`
    kvp_raw,    \* local `kvp_raw`
    results,    \* local `results`, the mapping that is returned
    overlays,   \* overlay images written to case_output_folder
    plot,       \* what matplotlib did for each overlay that was attempted
    lock,       \* the API's AppState.lock: TRUE while some request holds it
    req,        \* position of each POST /process request in its handler
    call        \* the call of the de-identification gateway and its outcome

vars == <<case, pc, modality, kvp_raw, results, overlays, plot, lock, req, call>>

\* The variables of the metrics engine, and those of the API in front of it.
engine_vars == <<case, pc, modality, kvp_raw, results, overlays, plot>>

api_vars == <<lock, req>>

\* ------------------------------------------------------------------ bounds
\* The intensity grid of the modelled cases is NX x NY x NZ voxels.
NX == 5
NY == 5
NZ == 7

\* Concurrent POST /process requests.
NReq == 3

\* ------------------------------------------------------------ JSON values
None == <<"none">>
Num(n) == <<"num", n>>
Str(s) == <<"str", s>>
List(q) == <<"list", q>>
Dict(f) == <<"dict", f>>

Put(r, k, v) == [x \in (DOMAIN r) \cup {k} |-> IF x = k THEN v ELSE r[x]]

Has(r, k) == k \in DOMAIN r

\* ------------------------------------------------------------- arithmetic
Abs(a) == IF a < 0 THEN -a ELSE a

Max2(a, b) == IF a >= b THEN a ELSE b

Min2(a, b) == IF a <= b THEN a ELSE b

\* Python's round(): a / b to the nearest integer, ties to even (b > 0).
RoundDiv(a, b) ==
    LET q == a \div b
        r == a % b
    IN  IF 2 * r < b THEN q
        ELSE IF 2 * r > b THEN q + 1
        ELSE IF q % 2 = 0 THEN q ELSE q + 1

RECURSIVE SumOver(_, _)
SumOver(S, f) ==
    IF S = {} THEN 0
    ELSE LET e == CHOOSE e \in S : TRUE
         IN  f[e] + SumOver(S \ {e}, f)

\* The elements of a finite set of integers in ascending order (np.where).
RECURSIVE Ascending(_)
Ascending(S) ==
    IF S = {} THEN <<>>
    ELSE LET m == CHOOSE m \in S : \A o \in S : m <= o
         IN  <<m>> \o Ascending(S \ {m})

\* round(sqrt(d) / n) for d >= 0, n > 0, searched below `top`.
SqrtDivRound(d, n, top) ==
    CHOOSE s \in 0..top :
        /\ (2 * s - 1) * (2 * s - 1) * n * n <= 4 * d \/ s = 0
        /\ 4 * d < (2 * s + 1) * (2 * s + 1) * n * n

\* ------------------------------------------------------------ NIfTI files
\* A NIfTI file: absent, present but failing nib.load ("corrupt"), or a
\* volume with a shape, a header (zooms) and its set of positive voxels.
MaskAbsent == [st |-> "absent", shape |-> <<0, 0, 0>>, zooms |-> <<0, 0, 0>>, vox |-> {}]

MaskCorrupt == [st |-> "corrupt", shape |-> <<0, 0, 0>>, zooms |-> <<0, 0, 0>>, vox |-> {}]

Mk(shape, zooms, vox) == [st |-> "ok", shape |-> shape, zooms |-> zooms, vox |-> vox]

Exists(m) == m.st # "absent"

Loads(m) == m.st = "ok"

FileOf(c, name) == IF name \in DOMAIN c.files THEN c.files[name] ELSE MaskAbsent

\* Intensity of the volume at a voxel: ct[x, y, z].
HU(ct, v) == IF (v[1] + v[2] + v[3]) % ct.period = 0 THEN ct.lo ELSE ct.hi

\* ------------------------------------------------------- get_volume_cm3
\* Faulty variant: the volume is truncated to 3 decimals, not rounded.
get_volume_cm3_Truncated(m) ==
    IF ~Exists(m) THEN 0
    ELSE IF ~Loads(m) THEN 0
    ELSE (Cardinality(m.vox) * m.zooms[1] * m.zooms[2] * m.zooms[3]) \div 8

get_volume_cm3(m) ==
    IF ~Exists(m) THEN 0
    ELSE IF ~Loads(m) THEN 0
    ELSE RoundDiv(Cardinality(m.vox) * m.zooms[1] * m.zooms[2] * m.zooms[3], 8)

\* ----------------------------------------------------------- get_mean_hu
MeanOf(ct, V) == RoundDiv(SumOver(V, [v \in V |-> HU(ct, v)]), Cardinality(V))

StdOf(ct, V) ==
    LET n == Cardinality(V)
        d == [v \in V |-> HU(ct, v) - Min2(ct.lo, ct.hi)]
        s1 == SumOver(V, d)
        s2 == SumOver(V, [v \in V |-> d[v] * d[v]])
    IN  SqrtDivRound(n * s2 - s1 * s1, n, Abs(ct.hi - ct.lo))

\* Faulty variant: no shape check, the mask voxels that fall inside the
\* intensity grid are measured.
get_mean_hu_NoShapeCheck(m, ct) ==
    LET inside == {v \in m.vox : \A i \in 1..3 : v[i] < ct.shape[i]}
    IN  IF ~Exists(m) THEN <<None, None>>
        ELSE IF ~Loads(m) THEN <<None, None>>
        ELSE IF inside = {} THEN <<None, None>>
        ELSE <<Num(MeanOf(ct, inside)), Num(StdOf(ct, inside))>>

\* Returns <<mean, std>>, both None when nothing can be measured.
get_mean_hu(m, ct) ==
    IF ~Exists(m) THEN <<None, None>>
    ELSE IF ~Loads(m) THEN <<None, None>>
    ELSE IF m.shape # ct.shape THEN <<None, None>>
    ELSE IF m.vox = {} THEN <<None, None>>
    ELSE <<Num(MeanOf(ct, m.vox)), Num(StdOf(ct, m.vox))>>

\* -------------------------------------------------- detect_body_regions
RegionOrder == <<"head", "neck", "thorax", "abdomen", "pelvis", "legs">>

regions_map(region) ==
    CASE region = "head" -> <<"skull", "brain", "face">>
      [] region = "neck" -> <<"vertebrae_C1", "vertebrae_C2", "vertebrae_C3",
                              "vertebrae_C4", "vertebrae_C5", "vertebrae_C6",
                              "vertebrae_C7", "trachea", "thyroid_gland">>
      [] region = "thorax" -> <<"lung_upper_lobe_left", "lung_upper_lobe_right",
                                "heart", "esophagus", "aorta", "pulmonary_vein">>
      [] region = "abdomen" -> <<"liver", "spleen", "pancreas", "kidney_left",
                                 "kidney_right", "stomach", "gallbladder",
                                 "adrenal_gland_left">>
      [] region = "pelvis" -> <<"sacrum", "urinary_bladder", "prostate", "hip_left",
                                "hip_right", "gluteus_maximus_left">>
      [] region = "legs" -> <<"femur_left", "femur_right">>

\* Faulty variant: a file that fails to load ends the scan of its region.
RegionPresent_StopsAtFailure(c, region) ==
    \E i \in DOMAIN regions_map(region) :
        LET m == FileOf(c, regions_map(region)[i])
        IN  /\ Exists(m) /\ Loads(m) /\ m.vox # {}
            /\ \A j \in 1..(i - 1) :
                  LET f == FileOf(c, regions_map(region)[j]) IN ~Exists(f) \/ Loads(f)

RegionPresent(c, region) ==
    \E i \in DOMAIN regions_map(region) :
        LET m == FileOf(c, regions_map(region)[i])
        IN  Exists(m) /\ Loads(m) /\ m.vox # {}

detect_body_regions(c) == SelectSeq(RegionOrder, LAMBDA r : RegionPresent(c, r))

\* ------------------------------------------- sidecar id.json (lines 110-126)
SidecarAbsent == [st |-> "absent", Modality |-> "missing", KVP |-> "missing"]

SidecarCorrupt == [st |-> "corrupt", Modality |-> "missing", KVP |-> "missing"]

Sidecar(mod, kvp) == [st |-> "ok", Modality |-> mod, KVP |-> kvp]

\* `modality` after the sidecar was read: "CT" unless id.json gives another.
SidecarModality(s) ==
    IF s.st # "ok" THEN "CT"
    ELSE IF s.Modality = "missing" THEN "CT" ELSE s.Modality

\* `kvp_raw` after the sidecar was read: the tag as stored, "Unknown" by default.
SidecarKvp(s) ==
    IF s.st # "ok" THEN Str("Unknown")
    ELSE IF s.KVP = "missing" THEN Str("Unknown")
    ELSE IF s.KVP = "null" THEN None
    ELSE Str(s.KVP)

Envelope(c) ==
    [k \in {"case_id", "body_regions", "modality"} |->
        CASE k = "case_id" -> Str(c.case_id)
          [] k = "body_regions" -> List(detect_body_regions(c))
          [] k = "modality" -> Str(SidecarModality(c.sidecar))]

\* ----------------------------------------- STEP 2: organs (lines 143-174)
organs_map == <<"liver", "spleen", "kidney_right", "kidney_left">>

\* Faulty variant: the value is not clamped.
PdffPercent_Unclamped(hu_mean) == RoundDiv(382000 - 58 * hu_mean, 100)

\* clamp(-0.58 * hu_mean + 38.2, 0, 100), rounded to 2 decimals.
PdffPercent(hu_mean) ==
    RoundDiv(Max2(0, Min2(1000000, 382000 - 58 * hu_mean)), 100)

\* Faulty variant: a liver of exactly 0.1 cm3 passes.
PdffGate_Inclusive(organ, vol, hu_mean) == organ = "liver" /\ vol >= 100 /\ hu_mean # None

\* Line 165: the organ is the liver, larger than 0.1 cm3, with a mean density.
PdffGate(organ, vol, hu_mean) == organ = "liver" /\ vol > 100 /\ hu_mean # None

OrganMetrics(c, mod, kvp, res, organ) ==
    LET m == FileOf(c, organ)
        vol == get_volume_cm3(m)
        r1 == Put(res, organ \o "_vol_cm3", Num(vol))
    IN  IF mod = "CT"
        THEN LET hu == get_mean_hu(m, c.ct)
                 r2 == Put(Put(r1, organ \o "_hu_mean", hu[1]), organ \o "_hu_std", hu[2])
             IN  IF PdffGate(organ, vol, hu[1])
                 THEN Put(Put(r2, organ \o "_pdff_percent", Num(PdffPercent(hu[1][2]))),
                          organ \o "_pdff_kvp", kvp)
                 ELSE r2
        ELSE Put(Put(r1, organ \o "_hu_mean", None), organ \o "_hu_std", None)

RECURSIVE OrganLoop(_, _, _, _, _)
OrganLoop(c, mod, kvp, res, i) ==
    IF i > Len(organs_map) THEN res
    ELSE OrganLoop(c, mod, kvp, OrganMetrics(c, mod, kvp, res, organs_map[i]), i + 1)

\* ------------------------------------------------------- axial geometry
\* np.where(mask.sum(axis=(0, 1)) > 0)[0]: the axial indices with a voxel.
ZIndices(m) == Ascending({v[3] : v \in m.vox})

\* Faulty variant: the lower of the two middle elements of an even list.
MiddleOf_Lower(zs) == zs[((Len(zs) - 1) \div 2) + 1]

\* The element used as the "middle" of an ascending index list.
MiddleOf(zs) == zs[(Len(zs) \div 2) + 1]

SliceOf(m, z) == {v \in m.vox : v[3] = z}

\* ------------------------------------ STEP 3: L3 sarcopenia (lines 182-269)
\* The L3 overlay is written when nothing in its try block raises: the
\* slice exists in the intensity volume, the muscle mask (when present)
\* loads and has that slice, and matplotlib renders (`render`).
L3OverlayWritten(c, mod, slice_idx, render) ==
    LET muscle == FileOf(c, "skeletal_muscle")
    IN  /\ mod = "CT"
        /\ slice_idx < c.ct.shape[3]
        /\ (Exists(muscle) => (Loads(muscle) /\ slice_idx < muscle.shape[3]))
        /\ render

\* Muscle metrics at the L3 slice (lines 241-263); an exception leaves the
\* keys written before it.
MuscleMetrics(c, mod, res, slice_idx) ==
    LET muscle == FileOf(c, "skeletal_muscle")
        ct == c.ct
        mask_slice == SliceOf(muscle, slice_idx)
        area == RoundDiv(Cardinality(mask_slice) * muscle.zooms[1] * muscle.zooms[2] * 5, 2)
        r1 == Put(res, "SMA_cm2", Num(area))
    IN  IF ~Exists(muscle) THEN res
        ELSE IF ~Loads(muscle) THEN res                        \* nib.load raises
        ELSE IF slice_idx >= muscle.shape[3] THEN res          \* IndexError
        ELSE IF mod = "CT"
             THEN IF slice_idx >= ct.shape[3] THEN r1          \* IndexError
                  ELSE IF <<muscle.shape[1], muscle.shape[2]>> # <<ct.shape[1], ct.shape[2]>>
                       THEN r1                                 \* boolean index mismatch
                  ELSE IF mask_slice # {}
                       THEN Put(Put(r1, "muscle_HU_mean", Num(MeanOf(ct, mask_slice))),
                                "muscle_HU_std", Num(StdOf(ct, mask_slice)))
                       ELSE Put(Put(r1, "muscle_HU_mean", Num(0)), "muscle_HU_std", Num(0))
             ELSE Put(Put(r1, "muscle_HU_mean", None), "muscle_HU_std", None)

\* Whether the try block of STEP 3 (lines 186-269) ends in its except clause.
L3Raises(c, mod) ==
    LET mL3 == FileOf(c, "vertebrae_L3")
        muscle == FileOf(c, "skeletal_muscle")
        slice_idx == MiddleOf(ZIndices(mL3))
    IN  /\ Exists(mL3)
        /\ \/ ~Loads(mL3)
           \/ /\ Len(ZIndices(mL3)) > 0
              /\ Exists(muscle)
              /\ \/ ~Loads(muscle)
                 \/ slice_idx >= muscle.shape[3]
                 \/ /\ mod = "CT"
                    /\ \/ slice_idx >= c.ct.shape[3]
                       \/ <<muscle.shape[1], muscle.shape[2]>> # <<c.ct.shape[1], c.ct.shape[2]>>

L3Results(c, mod, res) ==
    LET mL3 == FileOf(c, "vertebrae_L3")
    IN  IF ~Exists(mL3) THEN res
        ELSE IF ~Loads(mL3) THEN res
        ELSE IF Len(ZIndices(mL3)) = 0 THEN res
        ELSE LET slice_idx == MiddleOf(ZIndices(mL3))
             IN  MuscleMetrics(c, mod, Put(res, "slice_L3", Num(slice_idx)), slice_idx)

L3Overlays(c, mod, ov, render) ==
    LET mL3 == FileOf(c, "vertebrae_L3")
    IN  IF Loads(mL3) /\ Len(ZIndices(mL3)) > 0
           /\ L3OverlayWritten(c, mod, MiddleOf(ZIndices(mL3)), render)
        THEN ov \cup {"L3_overlay.png"}
        ELSE ov

\* ---------------------------------- STEP 4: hemorrhage (lines 275-351)
BleedLabels == <<"inferior_15", "center_50", "superior_85">>

\* int(n * p) clamped to 0..n-1, for p = pct / 100.
PercentileIndex(n, pct) == Max2(0, Min2((n * pct) \div 100, n - 1))

\* Faulty variant: the inferior and superior positions are exchanged.
slices_to_gen_Swapped(zs) ==
    [l \in {"inferior_15", "center_50", "superior_85"} |->
        CASE l = "inferior_15" -> zs[PercentileIndex(Len(zs), 85) + 1]
          [] l = "center_50" -> zs[PercentileIndex(Len(zs), 50) + 1]
          [] l = "superior_85" -> zs[PercentileIndex(Len(zs), 15) + 1]]

slices_to_gen(zs) ==
    [l \in {"inferior_15", "center_50", "superior_85"} |->
        CASE l = "inferior_15" -> zs[PercentileIndex(Len(zs), 15) + 1]
          [] l = "center_50" -> zs[PercentileIndex(Len(zs), 50) + 1]
          [] l = "superior_85" -> zs[PercentileIndex(Len(zs), 85) + 1]]

\* Whether the rendering loop of the hemorrhage overlays is entered.
BleedOverlayLoop(c, mod) ==
    LET bleed == FileOf(c, "intracerebral_hemorrhage")
    IN  /\ Exists(bleed)
        /\ get_volume_cm3(bleed) > 0
        /\ Len(ZIndices(bleed)) > 0
        /\ mod = "CT"
        /\ c.ct.shape = bleed.shape

\* `rendered`: how many of the three overlays matplotlib saved before failing.
HemorrhageResults(c, mod, res, rendered) ==
    LET bleed == FileOf(c, "intracerebral_hemorrhage")
        vol_bleed == get_volume_cm3(bleed)
        r1 == Put(res, "hemorrhage_vol_cm3", Num(vol_bleed))
    IN  IF ~Exists(bleed) THEN res
        ELSE IF BleedOverlayLoop(c, mod) /\ rendered = Len(BleedLabels)
             THEN Put(r1, "hemorrhage_analysis_slices", Dict(slices_to_gen(ZIndices(bleed))))
             ELSE r1

HemorrhageOverlays(c, mod, ov, rendered) ==
    IF BleedOverlayLoop(c, mod)
    THEN ov \cup {"bleed_overlay_" \o BleedLabels[i] \o ".png" : i \in 1..rendered}
    ELSE ov

\* ------------------------------------ STEP 5: L1 BMD (lines 362-531)
Plane(m, z) == {<<v[1], v[2]>> : v \in SliceOf(m, z)}

Neighbours(p) ==
    {<<p[1] - 1, p[2]>>, <<p[1] + 1, p[2]>>, <<p[1], p[2] - 1>>, <<p[1], p[2] + 1>>}

\* Faulty variant: the mask is not eroded.
binary_erosion_Skipped(S, iterations) == S

\* scipy binary_erosion, default cross structure, border value 0.
RECURSIVE binary_erosion(_, _)
binary_erosion(S, iterations) ==
    IF iterations = 0 THEN S
    ELSE binary_erosion({p \in S : Neighbours(p) \subseteq S}, iterations - 1)

\* max(1, int(5.0 / min(spacing[0], spacing[1])))
erosion_iters(zooms) == Max2(1, 10 \div Min2(zooms[1], zooms[2]))

RECURSIVE Component(_, _)
Component(S, C) ==
    LET grown == C \cup {p \in S : Neighbours(p) \cap C # {}}
    IN  IF grown = C THEN C ELSE Component(S, grown)

LexLess(p, q) == p[1] < q[1] \/ (p[1] = q[1] /\ p[2] < q[2])

FirstPixel(C) == CHOOSE p \in C : \A q \in C : p = q \/ LexLess(p, q)

\* ndlabel + argmax of the component sizes: the largest component, the
\* first one in scan order among equals; the set itself when it has at
\* most one component.
LargestComponent(S) ==
    LET comps == {Component(S, {p}) : p \in S}
    IN  IF Cardinality(comps) <= 1 THEN S
        ELSE CHOOSE C \in comps : \A D \in comps :
                \/ C = D
                \/ Cardinality(C) > Cardinality(D)
                \/ Cardinality(C) = Cardinality(D) /\ LexLess(FirstPixel(C), FirstPixel(D))

SumX(S) == SumOver(S, [p \in S |-> p[1]])

SumY(S) == SumOver(S, [p \in S |-> p[2]])

MinOf(S) == CHOOSE m \in S : \A o \in S : m <= o

MaxOf(S) == CHOOSE m \in S : \A o \in S : m >= o

\* Faulty variant: the ellipse is not intersected with the eroded body.
roi_mask_EllipseOnly(mask_2d, eroded_2d) ==
    LET fn == Cardinality(mask_2d)
        bn == Cardinality(eroded_2d)
        x_min == MinOf({p[1] : p \in eroded_2d})
        x_max == MaxOf({p[1] : p \in eroded_2d})
        y_min == MinOf({p[2] : p \in eroded_2d})
        y_max == MaxOf({p[2] : p \in eroded_2d})
        w == x_max - x_min
        h == y_max - y_min
        \* diff_x, diff_y over the common denominator fn * bn
        diff_x == Abs(SumX(mask_2d) * bn - SumX(eroded_2d) * fn)
        diff_y == Abs(SumY(mask_2d) * bn - SumY(eroded_2d) * fn)
        anterior_is_larger_y == SumY(eroded_2d) * fn > SumY(mask_2d) * bn
        anterior_is_larger_x == SumX(eroded_2d) * fn > SumX(mask_2d) * bn
        center_x4 == IF diff_y > diff_x THEN 2 * (x_min + x_max)
                     ELSE IF anterior_is_larger_x THEN 4 * x_max - w
                     ELSE 4 * x_min + w
        center_y4 == IF diff_y > diff_x
                     THEN IF anterior_is_larger_y THEN 4 * y_max - h ELSE 4 * y_min + h
                     ELSE 2 * (y_min + y_max)
        \* (x-cx)^2 / (0.35 w)^2 + (y-cy)^2 / (0.20 h)^2 <= 1; a zero radius
        \* divides by zero (inf or nan) and the comparison is False.
        ellipse(p) ==
            /\ w > 0
            /\ h > 0
            /\ 400 * (4 * p[1] - center_x4) * (4 * p[1] - center_x4) * h * h
               + 1225 * (4 * p[2] - center_y4) * (4 * p[2] - center_y4) * w * w
               <= 784 * w * w * h * h
    IN  {p \in mask_2d : ellipse(p)}

\* The oval ROI (lines 400-451) of the eroded body inside the full 2D mask:
\* the pixels of the ellipse that lie in the eroded body.  Centres are
\* held in quarters of a pixel.
roi_mask(mask_2d, eroded_2d) ==
    LET fn == Cardinality(mask_2d)
        bn == Cardinality(eroded_2d)
        x_min == MinOf({p[1] : p \in eroded_2d})
        x_max == MaxOf({p[1] : p \in eroded_2d})
        y_min == MinOf({p[2] : p \in eroded_2d})
        y_max == MaxOf({p[2] : p \in eroded_2d})
        w == x_max - x_min
        h == y_max - y_min
        \* diff_x, diff_y over the common denominator fn * bn
        diff_x == Abs(SumX(mask_2d) * bn - SumX(eroded_2d) * fn)
        diff_y == Abs(SumY(mask_2d) * bn - SumY(eroded_2d) * fn)
        anterior_is_larger_y == SumY(eroded_2d) * fn > SumY(mask_2d) * bn
        anterior_is_larger_x == SumX(eroded_2d) * fn > SumX(mask_2d) * bn
        center_x4 == IF diff_y > diff_x THEN 2 * (x_min + x_max)
                     ELSE IF anterior_is_larger_x THEN 4 * x_max - w
                     ELSE 4 * x_min + w
        center_y4 == IF diff_y > diff_x
                     THEN IF anterior_is_larger_y THEN 4 * y_max - h ELSE 4 * y_min + h
                     ELSE 2 * (y_min + y_max)
        \* (x-cx)^2 / (0.35 w)^2 + (y-cy)^2 / (0.20 h)^2 <= 1; a zero radius
        \* divides by zero (inf or nan) and the comparison is False.
        ellipse(p) ==
            /\ w > 0
            /\ h > 0
            /\ 400 * (4 * p[1] - center_x4) * (4 * p[1] - center_x4) * h * h
               + 1225 * (4 * p[2] - center_y4) * (4 * p[2] - center_y4) * w * w
               <= 784 * w * w * h * h
    IN  {p \in eroded_2d : ellipse(p)}

\* Pickhardt classification of the unrounded mean sum / n (HU in hundredths).
classification(sum, n) ==
    IF sum > 16000 * n THEN "Normal"
    ELSE IF sum >= 10000 * n THEN "Osteopenia"
    ELSE "Osteoporose"

\* Faulty variant: the BMD analysis is attempted for every modality.
BmdGate_AnyModality(c, mod) == Exists(FileOf(c, "vertebrae_L1"))

\* Faulty variant: STEP 5 sits inside the try block of STEP 3, so an
\* exception in the L3 analysis skips it.
BmdGate_InsideL3Try(c, mod) ==
    Exists(FileOf(c, "vertebrae_L1")) /\ mod = "CT" /\ ~L3Raises(c, mod)

\* Line 364: the analysis runs for CT cases that have a vertebrae_L1 file.
BmdGate(c, mod) == Exists(FileOf(c, "vertebrae_L1")) /\ mod = "CT"

BmdResults(c, mod, res) ==
    LET mL1 == FileOf(c, "vertebrae_L1")
        ct == c.ct
    IN  IF ~BmdGate(c, mod) THEN res
        ELSE IF ~Loads(mL1) THEN res
        ELSE IF ct.shape # mL1.shape THEN res
        ELSE IF Len(ZIndices(mL1)) = 0 THEN res
        ELSE LET center_z == MiddleOf(ZIndices(mL1))
                 mask_2d == Plane(mL1, center_z)
                 eroded_2d == LargestComponent(
                                  binary_erosion(mask_2d, erosion_iters(mL1.zooms)))
             IN  IF eroded_2d = {} THEN res
                 ELSE LET roi == {<<p[1], p[2], center_z>> : p \in roi_mask(mask_2d, eroded_2d)}
                          n == Cardinality(roi)
                          sum == SumOver(roi, [v \in roi |-> HU(ct, v)])
                      IN  IF n = 0 THEN res
                          ELSE Put(Put(Put(Put(res,
                                   "L1_trabecular_HU_mean", Num(RoundDiv(sum, n))),
                                   "L1_trabecular_HU_std", Num(StdOf(ct, roi))),
                                   "L1_trabecular_voxel_count", Num(n)),
                                   "L1_bmd_classification", Str(classification(sum, n)))

\* The BMD overlay is attempted once the four BMD keys are written to `res`.
BmdOverlays(res, ov, render) ==
    IF Has(res, "L1_bmd_classification") /\ render
    THEN ov \cup {"L1_BMD_overlay.png"}
    ELSE ov

\* ------------------------------- STEP 6: lobar emphysema (lines 540-625)
lung_lobes_map ==
    <<"lung_upper_lobe_left", "lung_lower_lobe_left", "lung_upper_lobe_right",
      "lung_middle_lobe_right", "lung_lower_lobe_right">>

\* Minimum lobe volumes, in thousandths of a cm3.
lobe_min_volumes_cm3(lobe) == IF lobe = "lung_middle_lobe_right" THEN 50000 ELSE 100000

\* Faulty variant of the gate: a lobe at its minimum is excluded too.
lobes_complete_Inclusive(c) ==
    \A i \in DOMAIN lung_lobes_map :
        LET fpath == FileOf(c, lung_lobes_map[i])
        IN  /\ Exists(fpath)
            /\ ~(get_volume_cm3(fpath) <= lobe_min_volumes_cm3(lung_lobes_map[i]))

\* The completeness gate (lines 560-574).
lobes_complete(c) ==
    \A i \in DOMAIN lung_lobes_map :
        LET fpath == FileOf(c, lung_lobes_map[i])
        IN  /\ Exists(fpath)
            /\ ~(get_volume_cm3(fpath) < lobe_min_volumes_cm3(lung_lobes_map[i]))

\* -950 HU, in hundredths.
EmphysemaThreshold == -95000

\* The local `nii_lobe` before any assignment: reading it raises.
Unbound == [bound |-> FALSE, zooms |-> <<0, 0, 0>>]

\* Faulty variant: `nii_lobe` is bound to a lobe image when line 584 reads it.
nii_lobe_at_584_Bound == [bound |-> TRUE, zooms |-> <<100, 100, 80>>]

\* `nii_lobe` when line 584 reads it: its only assignment in the function
\* is line 589, inside the loop that follows, so the name is still unbound.
nii_lobe_at_584 == Unbound

\* The loop over the lobes (lines 587-609), from lobe i on; `zprod` is the
\* voxel volume read at line 584.
RECURSIVE LobeLoop(_, _, _, _, _, _)
LobeLoop(c, res, i, total_lung_voxels, total_emphysema_voxels, zprod) ==
    IF i > Len(lung_lobes_map)
    THEN [res |-> res, lung |-> total_lung_voxels, emph |-> total_emphysema_voxels]
    ELSE LET lobe_name == lung_lobes_map[i]
             m == FileOf(c, lobe_name)
             n_total == Cardinality(m.vox)
             n_emphysema == Cardinality({v \in m.vox : HU(c.ct, v) < EmphysemaThreshold})
             r == Put(Put(Put(Put(res,
                      lobe_name \o "_emphysema_percent", Num(RoundDiv(n_emphysema * 10000, n_total))),
                      lobe_name \o "_vol_cm3", Num(RoundDiv(n_total * zprod, 80))),
                      lobe_name \o "_emphysema_vol_cm3", Num(RoundDiv(n_emphysema * zprod, 80))),
                      lobe_name \o "_total_voxels", Num(n_total))
         IN  IF m.shape # c.ct.shape \/ n_total = 0
             THEN LobeLoop(c, res, i + 1, total_lung_voxels, total_emphysema_voxels, zprod)
             ELSE LobeLoop(c, r, i + 1, total_lung_voxels + n_total,
                           total_emphysema_voxels + n_emphysema, zprod)

\* The try block (lines 577-621): reading an unbound `nii_lobe` raises
\* UnboundLocalError, which the except clause turns into status "Error".
EmphysemaTry(c, res, nii_lobe) ==
    IF ~nii_lobe.bound THEN Put(res, "lung_analysis_status", Str("Error"))
    ELSE LET zprod == nii_lobe.zooms[1] * nii_lobe.zooms[2] * nii_lobe.zooms[3]
             l == LobeLoop(c, res, 1, 0, 0, zprod)
         IN  IF l.lung > 0
             THEN Put(Put(Put(Put(l.res,
                      "total_lung_emphysema_percent", Num(RoundDiv(l.emph * 10000, l.lung))),
                      "total_lung_vol_cm3", Num(RoundDiv(l.lung * zprod, 80))),
                      "total_lung_emphysema_vol_cm3", Num(RoundDiv(l.emph * zprod, 80))),
                      "lung_analysis_status", Str("Complete"))
             ELSE l.res

\* Faulty variant: nothing is written when the gate fails.
EmphysemaResults_SilentWhenIncomplete(c, mod, res) ==
    IF lobes_complete(c) /\ mod = "CT"
    THEN EmphysemaTry(c, res, nii_lobe_at_584)
    ELSE res

\* Faulty variant: the gate forgets the modality.
EmphysemaResults_AnyModality(c, mod, res) ==
    IF lobes_complete(c)
    THEN EmphysemaTry(c, res, nii_lobe_at_584)
    ELSE Put(res, "lung_analysis_status", Str("Incomplete or non-CT"))

EmphysemaResults(c, mod, res) ==
    IF lobes_complete(c) /\ mod = "CT"
    THEN EmphysemaTry(c, res, nii_lobe_at_584)
    ELSE Put(res, "lung_analysis_status", Str("Incomplete or non-CT"))

\* ------------------------------------------------------ modelled inputs
GridShape == <<NX, NY, NZ>>

\* A grid one slice deeper, and one a column wider, than the intensity grid.
DeeperShape == <<NX, NY, NZ + 1>>

WiderShape == <<NX + 1, NY, NZ>>

Box(x0, x1, y0, y1, z0, z1) == {<<x, y, z>> : x \in x0..x1, y \in y0..y1, z \in z0..z1}

\* Intensity volumes: a checkerboard of two values (hundredths of a HU).
Ct(lo, hi, period) == [st |-> "ok", shape |-> GridShape, lo |-> lo, hi |-> hi, period |-> period]

CtUnreadable == [st |-> "corrupt", shape |-> <<0, 0, 0>>, lo |-> 0, hi |-> 0, period |-> 1]

SoftTissueCt == Ct(5500, 6500, 2)

LungCt == Ct(-96000, -94000, 3)

NoFiles == [n \in {} |-> MaskAbsent]

CaseOf(sidecar, ct, files) ==
    [case_id |-> "case", sidecar |-> sidecar, ct |-> ct, files |-> files]

Sidecars ==
    {SidecarAbsent, SidecarCorrupt, Sidecar("CT", "120"), Sidecar("CT", "missing"),
     Sidecar("CT", "null"), Sidecar("missing", "120"), Sidecar("MR", "missing"),
     Sidecar("MR", "120")}

CtOrMr == {Sidecar("CT", "120"), Sidecar("MR", "missing")}

\* Organs: 1 cm3 voxels, so the liver passes the 0.1 cm3 PDFF gate.
OrganBlock == Mk(GridShape, <<20, 20, 20>>, Box(0, 1, 0, 1, 0, 0))

\* Livers of exactly 0.100 cm3 (4 voxels of 25 mm3) and of 0.101 cm3.
LiverAtGate == Mk(GridShape, <<10, 10, 2>>, Box(0, 1, 0, 1, 0, 0))

LiverAboveGate == Mk(GridShape, <<2, 4, 101>>, Box(2, 2, 2, 2, 1, 1))

OrganEmpty == Mk(GridShape, <<20, 20, 20>>, {})

OrganInputs ==
    {NoFiles,
     "liver" :> OrganBlock @@ "spleen" :> OrganBlock,
     "liver" :> MaskCorrupt @@ "kidney_left" :> OrganBlock,
     "liver" :> Mk(DeeperShape, <<20, 20, 20>>, Box(0, 1, 0, 1, 0, 0)),
     "liver" :> LiverAtGate @@ "spleen" :> OrganEmpty,
     "liver" :> LiverAboveGate @@ "kidney_right" :> MaskCorrupt,
     "liver" :> OrganEmpty @@ "kidney_right" :> Mk(WiderShape, <<20, 20, 20>>, Box(0, NX, 0, 1, 0, 0)),
     \* 3 voxels of 3.375 mm3 (0.010125 cm3) and 1 voxel of 5.625 mm3
     "spleen" :> Mk(GridShape, <<3, 3, 3>>, Box(0, 2, 0, 0, 0, 0))
        @@ "kidney_left" :> Mk(GridShape, <<3, 3, 5>>, Box(1, 1, 1, 1, 1, 1))
        @@ "kidney_right" :> MaskCorrupt}

\* Intensity volumes of one value each, for the liver density: -1000 HU,
\* +1000 HU, and values around both ends of the PDFF clamp.
LiverCts ==
    {Ct(hu, hu, 1) : hu \in {-100000, -10656, -10655, 6001, 6500, 6586, 6587, 100000}}

\* L3 landmark on slices 2..4 (middle 3) and the muscle mask.
L3Block == Mk(GridShape, <<2, 2, 2>>, Box(1, 2, 1, 2, 2, 4))

MuscleBlock == Mk(GridShape, <<2, 2, 2>>, Box(0, NX - 1, 0, 1, 3, 3))

L3Inputs ==
    {NoFiles,
     "vertebrae_L3" :> L3Block,
     "vertebrae_L3" :> L3Block @@ "skeletal_muscle" :> MuscleBlock,
     "vertebrae_L3" :> L3Block @@ "skeletal_muscle" :> MaskCorrupt,
     "vertebrae_L3" :> L3Block
        @@ "skeletal_muscle" :> Mk(WiderShape, <<2, 2, 2>>, Box(0, NX, 0, 1, 3, 3)),
     "vertebrae_L3" :> MaskCorrupt @@ "skeletal_muscle" :> MuscleBlock,
     "vertebrae_L3" :> L3Block
        @@ "skeletal_muscle" :> Mk(DeeperShape, <<2, 2, 2>>, Box(0, NX - 1, 0, 1, 3, 3)),
     "vertebrae_L3" :> Mk(GridShape, <<2, 2, 2>>, {}) @@ "skeletal_muscle" :> MuscleBlock}

\* Every axial profile of the L3 mask, without and with a muscle mask.
L3Wide ==
    {"vertebrae_L3" :> Mk(GridShape, <<2, 2, 2>>, {<<2, 2, z>> : z \in zs}) @@ muscle :
        zs \in SUBSET (0..(NZ - 1)), muscle \in {NoFiles, "skeletal_muscle" :> MuscleBlock}}

\* Hemorrhage masks: one voxel on each axial index of a profile.
Bleed(shape, zs) == Mk(shape, <<2, 2, 2>>, {<<1, 1, z>> : z \in zs})

BleedNarrow ==
    {NoFiles,
     "intracerebral_hemorrhage" :> Bleed(GridShape, {1, 2, 4}),
     "intracerebral_hemorrhage" :> MaskCorrupt,
     "intracerebral_hemorrhage" :> Bleed(DeeperShape, {0, 3, NZ})}

BleedWide ==
    {"intracerebral_hemorrhage" :> Bleed(sh, zs) :
        sh \in {GridShape, WiderShape}, zs \in SUBSET (0..(NZ - 1))}

\* L1: the whole plane on slices 2..4 at 3 mm spacing (one erosion pass).
L1Block == Mk(GridShape, <<6, 6, 6>>, Box(0, NX - 1, 0, NY - 1, 2, 4))

\* A vertebral body with a posterior element along array axis 1 (Y), and
\* the same mask transposed (the element along axis 0, X).
L1ProcessAlongY == Mk(GridShape, <<6, 6, 6>>, Box(0, 4, 0, 3, 2, 4) \cup Box(2, 2, 4, 4, 2, 4))

L1ProcessAlongX == Mk(GridShape, <<6, 6, 6>>, Box(0, 3, 0, 4, 2, 4) \cup Box(4, 4, 2, 2, 2, 4))

\* A body with three notches: its ellipse covers a pixel that the erosion
\* has removed.
L1Notched ==
    Mk(GridShape, <<6, 6, 6>>,
       Box(0, 4, 0, 4, 2, 4) \ (Box(0, 0, 2, 2, 2, 4) \cup Box(3, 3, 0, 0, 2, 4) \cup Box(4, 4, 2, 2, 2, 4)))

\* In-plane spacings of 2 mm and 5 mm: 5 / spacing = 2.5 and 1.
L1Fine == Mk(GridShape, <<4, 6, 6>>, Box(0, NX - 1, 0, NY - 1, 2, 4))

L1Coarse == Mk(GridShape, <<10, 12, 6>>, Box(0, NX - 1, 0, NY - 1, 2, 4))

\* Intensity volumes whose mean over the two ROI voxels of L1Block lies at
\* and next to the classification thresholds of 160 and 100 HU.
L1Cts ==
    {Ct(lo, lo + d, 2) : lo \in {9998, 9999, 10000, 15999, 16000, 16001}, d \in {0, 1}}

L1Inputs ==
    {NoFiles,
     "vertebrae_L1" :> L1Block,
     "vertebrae_L1" :> L1ProcessAlongY,
     "vertebrae_L1" :> L1ProcessAlongX,
     "vertebrae_L1" :> L1Notched,
     "vertebrae_L1" :> L1Fine,
     "vertebrae_L1" :> L1Coarse,
     "vertebrae_L1" :> MaskCorrupt,
     "vertebrae_L1" :> Mk(DeeperShape, <<6, 6, 6>>, Box(0, NX - 1, 0, NY - 1, 2, 4)),
     "vertebrae_L1" :> Mk(GridShape, <<6, 6, 6>>, Box(0, 1, 0, 1, 2, 4)),
     "vertebrae_L1" :> Mk(GridShape, <<6, 6, 6>>, Box(1, 3, 1, 3, 2, 4)),
     "vertebrae_L1" :> Mk(GridShape, <<6, 6, 6>>, {})}

\* Lobes: voxel volumes chosen around the 100 / 50 cm3 minimum.
\*   (100,100,80) half-mm = 100.000 cm3    (99,101,80) = 99.990 cm3
\*   (6,151,883)          =  99.99975 cm3, which rounds to 100.000
LobeVoxels == Box(1, 1, 1, 1, 1, 1)

LobeExact(lobe) ==
    Mk(GridShape, IF lobe = "lung_middle_lobe_right" THEN <<100, 100, 40>> ELSE <<100, 100, 80>>,
       LobeVoxels)

LobeBelow(lobe) ==
    Mk(GridShape, IF lobe = "lung_middle_lobe_right" THEN <<99, 101, 40>> ELSE <<99, 101, 80>>,
       LobeVoxels)

LobeAbove(lobe) == Mk(GridShape, <<100, 100, 80>>, Box(1, 2, 1, 1, 1, 2))

LobeRounded(lobe) ==
    Mk(GridShape, IF lobe = "lung_middle_lobe_right" THEN <<3, 151, 883>> ELSE <<6, 151, 883>>,
       LobeVoxels)

LobeVariants(lobe) == {MaskAbsent, LobeExact(lobe), LobeBelow(lobe)}

LobeNames == {lung_lobes_map[i] : i \in DOMAIN lung_lobes_map}

AllLobes(f(_)) == [l \in LobeNames |-> f(l)]

\* A lobe above its minimum volume on a grid wider than the intensity grid.
LobeOffGrid(lobe) == Mk(WiderShape, <<100, 100, 80>>, Box(1, 2, 1, 1, 1, 2))

LobesNarrow ==
    {NoFiles,
     AllLobes(LobeAbove),
     AllLobes(LobeOffGrid),
     [AllLobes(LobeAbove) EXCEPT !["lung_lower_lobe_left"] = MaskCorrupt],
     [AllLobes(LobeAbove) EXCEPT !["lung_middle_lobe_right"] =
         Mk(WiderShape, <<100, 100, 80>>, LobeVoxels)],
     [AllLobes(LobeExact) EXCEPT !["lung_upper_lobe_right"] = LobeRounded("lung_upper_lobe_right")],
     [AllLobes(LobeExact) EXCEPT !["lung_middle_lobe_right"] = LobeRounded("lung_middle_lobe_right")]}

LobesWide ==
    {f \in [LobeNames -> UNION {LobeVariants(l) : l \in LobeNames}] :
        \A l \in LobeNames : f[l] \in LobeVariants(l)}

\* Region files: the first two files of "head" in every state, and one
\* file of four other regions, absent or with a voxel.
RegionBlock == Mk(GridShape, <<2, 2, 2>>, Box(0, 0, 0, 0, 0, 0))

RegionEmpty == Mk(GridShape, <<2, 2, 2>>, {})

RegionInputs ==
    {"skull" :> skull @@ "brain" :> brain @@ "thyroid_gland" :> neck @@ "heart" :> heart
        @@ "sacrum" :> sacrum @@ "femur_right" :> femur :
        skull \in {MaskAbsent, MaskCorrupt, RegionEmpty, RegionBlock},
        brain \in {MaskAbsent, RegionEmpty, RegionBlock},
        neck \in {MaskAbsent, RegionBlock},
        heart \in {MaskAbsent, RegionBlock},
        sacrum \in {MaskAbsent, MaskCorrupt},
        femur \in {MaskAbsent, RegionBlock}}

\* For each analyzer: no input, good inputs, inputs it fails on.
Absent == [organs |-> NoFiles, l3 |-> NoFiles, bleed |-> NoFiles, bmd |-> NoFiles,
           lungs |-> NoFiles]

Good == [organs |-> "liver" :> OrganBlock @@ "spleen" :> OrganBlock,
         l3 |-> "vertebrae_L3" :> L3Block @@ "skeletal_muscle" :> MuscleBlock,
         bleed |-> "intracerebral_hemorrhage" :> Bleed(GridShape, {1, 2, 4}),
         bmd |-> "vertebrae_L1" :> L1Block,
         lungs |-> AllLobes(LobeAbove)]

Failing == [organs |-> "liver" :> MaskCorrupt @@ "kidney_left" :> OrganBlock,
            l3 |-> "vertebrae_L3" :> L3Block @@ "skeletal_muscle" :> MaskCorrupt,
            bleed |-> "intracerebral_hemorrhage" :> Bleed(DeeperShape, {0, 3, NZ}),
            bmd |-> "vertebrae_L1" :> MaskCorrupt,
            lungs |-> [AllLobes(LobeAbove) EXCEPT !["lung_lower_lobe_left"] = MaskCorrupt]]

Analyzers == {"organs", "l3", "bleed", "bmd", "lungs"}

FilesOf(pick) == pick.organs @@ pick.l3 @@ pick.bleed @@ pick.bmd @@ pick.lungs

NarrowInputs == [organs |-> OrganInputs, l3 |-> L3Inputs, bleed |-> BleedNarrow,
                 bmd |-> L1Inputs, lungs |-> LobesNarrow]

Cases ==
    \* every analyzer with absent, good and failing inputs, CT and MR
    {CaseOf(s, SoftTissueCt, FilesOf(pick)) :
        s \in CtOrMr,
        pick \in {q \in [Analyzers -> {NoFiles} \cup {Good[a] : a \in Analyzers}
                                          \cup {Failing[a] : a \in Analyzers}] :
                     \A a \in Analyzers : q[a] \in {Absent[a], Good[a], Failing[a]}}}
    \* every modelled input of one analyzer, the others all absent or all good
    \cup UNION {{CaseOf(s, ct, FilesOf([rest EXCEPT ![a] = x])) :
                    s \in CtOrMr, ct \in {SoftTissueCt, LungCt}, rest \in {Absent, Good},
                    x \in NarrowInputs[a]} : a \in Analyzers}
    \* every axial profile of the hemorrhage mask
    \cup {CaseOf(s, SoftTissueCt, b) : s \in CtOrMr, b \in BleedWide}
    \* every combination of lobe volumes around the minimum
    \cup {CaseOf(s, LungCt, e) : s \in CtOrMr, e \in LobesWide}
    \* every axial profile of the L3 landmark
    \cup {CaseOf(s, SoftTissueCt, l) : s \in CtOrMr, l \in L3Wide}
    \* every liver density
    \cup {CaseOf(Sidecar("CT", "120"), ct, "liver" :> liver) :
            ct \in LiverCts, liver \in {OrganBlock, LiverAtGate, LiverAboveGate}}
    \* every trabecular density around the thresholds
    \cup {CaseOf(Sidecar("CT", "120"), ct, "vertebrae_L1" :> L1Block) : ct \in L1Cts}
    \* every combination of region files
    \cup {CaseOf(Sidecar("CT", "120"), SoftTissueCt, r) : r \in RegionInputs}
    \* every sidecar, readable and unreadable intensity volume
    \cup {CaseOf(s, ct, FilesOf(rest)) :
            s \in Sidecars, ct \in {SoftTissueCt, CtUnreadable}, rest \in {Absent, Good}}

\* ------------------------------------------- de-identification gateway
\* src/services/deid_gateway.py.  A text is a sequence of one-character
\* strings, so that case folding, stripping and the regular expression of
\* the age are computed character by character.
UpperLetters ==
    <<"A", "B", "C", "D", "E", "F", "G", "H", "I", "J", "K", "L", "M",
      "N", "O", "P", "Q", "R", "S", "T", "U", "V", "W", "X", "Y", "Z">>

LowerLetters ==
    <<"a", "b", "c", "d", "e", "f", "g", "h", "i", "j", "k", "l", "m",
      "n", "o", "p", "q", "r", "s", "t", "u", "v", "w", "x", "y", "z">>

DigitChars == <<"0", "1", "2", "3", "4", "5", "6", "7", "8", "9">>

Whitespace == {" ", "\t", "\n"}

Occurs(seq, c) == \E i \in 1..Len(seq) : seq[i] = c

IndexIn(seq, c) == CHOOSE i \in 1..Len(seq) : seq[i] = c

\* (No text of the catalogue has an accented capital.)
lower_char(c) == IF Occurs(UpperLetters, c) THEN LowerLetters[IndexIn(UpperLetters, c)] ELSE c

\* str.lower()
RECURSIVE lower(_)
lower(s) == IF s = <<>> THEN <<>> ELSE <<lower_char(Head(s))>> \o lower(Tail(s))

RECURSIVE lstrip(_)
lstrip(s) == IF s # <<>> /\ Head(s) \in Whitespace THEN lstrip(Tail(s)) ELSE s

RECURSIVE rstrip(_)
rstrip(s) == IF s # <<>> /\ s[Len(s)] \in Whitespace THEN rstrip(SubSeq(s, 1, Len(s) - 1)) ELSE s

\* str.strip()
strip(s) == rstrip(lstrip(s))

\* int(text) for a run of decimal digits, and str(n) for n >= 0.
RECURSIVE int(_)
int(d) ==
    IF d = <<>> THEN 0
    ELSE 10 * int(SubSeq(d, 1, Len(d) - 1)) + (IndexIn(DigitChars, d[Len(d)]) - 1)

RECURSIVE str(_)
str(n) ==
    IF n < 10 THEN <<DigitChars[n + 1]>>
    ELSE str(n \div 10) \o <<DigitChars[(n % 10) + 1]>>

\* An environment variable: unset, or set to a text.
Unset == [set |-> FALSE, text |-> <<>>]

EnvText(t) == [set |-> TRUE, text |-> t]

getenv(e, default) == IF e.set THEN e.text ELSE default

Block == <<"b", "l", "o", "c", "k">>

Mask == <<"m", "a", "s", "k">>

Allow == <<"a", "l", "l", "o", "w">>

\* Faulty variant: an unrecognised DEID_OCR_ACTION is kept as it is.
ocr_action_KeepsUnrecognised(env) == lower(strip(getenv(env, Block)))

\* Lines 170-172: the effective action.
ocr_action(env) ==
    LET action == lower(strip(getenv(env, Block)))
    IN  IF action \notin {Block, Mask, Allow} THEN Block ELSE action

\* Defaults of DEID_OCR_MIN_CONFIDENCE (percent) and DEID_OCR_MIN_CHARS.
min_conf == 40

min_chars == 2

\* Lines 71-118: the entries of the OCR engine that become boxes; none when
\* the engine is missing or fails.
detect_text_boxes_ocr(ocr) ==
    LET keep(e) == e.chars >= min_chars /\ e.conf >= min_conf /\ e.w > 0 /\ e.h > 0
    IN  IF ocr.engine # "ok" THEN <<>> ELSE SelectSeq(ocr.data, keep)

\* Lines 159-217.  payload is what the bytes decode as: "dicom" (with
\* PixelData), "image" (PNG/JPG, the fallback) or "unsupported".
deidentify_image_payload(env, payload, ocr) ==
    LET action == ocr_action(env)
        boxes == detect_text_boxes_ocr(ocr)
        review_required == Len(boxes) > 0
        masked == review_required /\ action = Mask
        details == [metadata_removed |-> TRUE,
                    pixel_redaction |-> masked,
                    ocr_action |-> action,
                    input_format |-> payload,
                    ocr_available |-> ocr.engine = "ok",
                    review_required |-> review_required,
                    ocr_matches |-> Len(boxes)]
    IN  IF payload = "unsupported"
        THEN [st |-> "raised", out |-> [exc |-> "ValueError"]]
        ELSE IF review_required /\ action = Block
        THEN [st |-> "raised", out |-> [exc |-> "DeidReviewRequiredError", details |-> details]]
        ELSE [st |-> "returned",
              out |-> [data |-> IF masked THEN "jpeg with boxes blacked out" ELSE "jpeg",
                       media_type |-> "image/jpeg",
                       review_required |-> review_required,
                       bounding_boxes |-> boxes,
                       details |-> details]]

\* ---- the age
IsDigit(c) == Occurs(DigitChars, c)

\* \w of the regular expressions, for the characters of the catalogue.
IsWordChar(c) ==
    IsDigit(c) \/ Occurs(UpperLetters, c) \/ Occurs(LowerLetters, c) \/ c \in {"_", "ê"}

WordAt(s, i) == i \in 1..Len(s) /\ IsWordChar(s[i])

\* \b between s[k] and s[k+1], for k in 0..Len(s).
Boundary(s, k) == WordAt(s, k) # WordAt(s, k + 1)

\* The alternatives of the unit group of _RE_AGE, in its order.
UnitAlternatives ==
    << <<"d", "a", "y">>, <<"d", "a", "y", "s">>, <<"d", "i", "a">>, <<"d", "i", "a", "s">>,
       <<"m", "o", "n", "t", "h">>, <<"m", "o", "n", "t", "h", "s">>,
       <<"m", "e", "s">>, <<"m", "e", "s", "e", "s">>,
       <<"m", "ê", "s">>, <<"m", "ê", "s", "e", "s">>,
       <<"y", "e", "a", "r">>, <<"y", "e", "a", "r", "s">>,
       <<"a", "n", "o">>, <<"a", "n", "o", "s">> >>

Days == <<"d", "a", "y", "s">>

Months == <<"m", "o", "n", "t", "h", "s">>

Years == <<"y", "e", "a", "r", "s">>

\* Lines 247-263: unit_map.get(unit_raw, "years").
unit_map(unit_raw) ==
    IF \E i \in 1..4 : UnitAlternatives[i] = unit_raw THEN Days
    ELSE IF \E i \in 5..10 : UnitAlternatives[i] = unit_raw THEN Months
    ELSE Years

\* The number of whitespace characters of s that follow position q.
RECURSIVE SpaceRun(_, _)
SpaceRun(s, q) == IF q < Len(s) /\ s[q + 1] \in Whitespace THEN 1 + SpaceRun(s, q + 1) ELSE 0

UnitLen(u) == IF u = 0 THEN 0 ELSE Len(UnitAlternatives[u])

\* One way of matching _RE_AGE at offset p: nd digits, ns whitespace
\* characters, alternative u of the unit group (0: the group is skipped),
\* with a word boundary before and after; the flag IGNORECASE makes the
\* unit match in any case.
Fits(s, p, nd, ns, u) ==
    LET q == p + nd + ns
    IN  /\ Boundary(s, p)
        /\ p + nd <= Len(s)
        /\ \A i \in 1..nd : IsDigit(s[p + i])
        /\ ns <= SpaceRun(s, p + nd)
        /\ u # 0 => /\ q + UnitLen(u) <= Len(s)
                    /\ lower(SubSeq(s, q + 1, q + UnitLen(u))) = UnitAlternatives[u]
        /\ Boundary(s, q + UnitLen(u))

\* (The whitespace after the digits is no longer than the three runs added.)
Attempts(s, p) ==
    {a \in (1..3) \X (0..SpaceRun(s, p + 1) + SpaceRun(s, p + 2) + SpaceRun(s, p + 3))
            \X (0..Len(UnitAlternatives)) : Fits(s, p, a[1], a[2], a[3])}

\* The order in which the backtracking matcher tries them: \d{1,3} and \s*
\* are greedy, the unit group is tried alternative by alternative before it
\* is skipped.
TriedBefore(a, b) ==
    LET rank(u) == IF u = 0 THEN Len(UnitAlternatives) + 1 ELSE u
    IN  \/ a[1] > b[1]
        \/ a[1] = b[1] /\ a[2] > b[2]
        \/ a[1] = b[1] /\ a[2] = b[2] /\ rank(a[3]) < rank(b[3])

\* _RE_AGE.search(value): whether there is a match, and the groups of the
\* leftmost one.
RE_AGE_search(s) ==
    LET starts == {p \in 0..Len(s) - 1 : Boundary(s, p) /\ IsDigit(s[p + 1]) /\ Attempts(s, p) # {}}
    IN  IF starts = {} THEN [found |-> FALSE, group1 |-> <<>>, group2 |-> None]
        ELSE LET p == CHOOSE x \in starts : \A y \in starts : x <= y
                 a == CHOOSE x \in Attempts(s, p) : \A y \in Attempts(s, p) \ {x} : TriedBefore(x, y)
                 q == p + a[1] + a[2]
             IN  [found |-> TRUE,
                  group1 |-> SubSeq(s, p + 1, p + a[1]),
                  group2 |-> IF a[3] = 0 THEN None ELSE SubSeq(s, q + 1, q + UnitLen(a[3]))]

RedactedId == <<"[", "R", "E", "D", "A", "C", "T", "E", "D", "_", "I", "D", "]">>

\* The length of the run of digits of s that starts after position q.
RECURSIVE DigitRun(_, _)
DigitRun(s, q) == IF q < Len(s) /\ IsDigit(s[q + 1]) THEN 1 + DigitRun(s, q + 1) ELSE 0

\* _RE_LONG_ID.sub: every run of six digits or more between word boundaries.
RECURSIVE RE_LONG_ID_sub(_, _)
RE_LONG_ID_sub(s, q) ==
    IF q >= Len(s) THEN <<>>
    ELSE LET n == DigitRun(s, q)
         IN  IF n >= 6 /\ Boundary(s, q) /\ Boundary(s, q + n)
             THEN RedactedId \o RE_LONG_ID_sub(s, q + n)
             ELSE <<s[q + 1]>> \o RE_LONG_ID_sub(s, q + 1)

\* Lines 220-231.  The e-mail, date and telephone patterns need "@", "/",
\* "-" or nine characters of a number, which no text of the catalogue has.
sanitize_free_text(value) ==
    IF value = None \/ value = <<>> THEN <<>> ELSE RE_LONG_ID_sub(strip(value), 0)

\* Faulty variant: the band starts at the age itself.
low_Exact(age) == age

\* Lines 267-268.
low(age) == (age \div 5) * 5

high(age) == low(age) + 4

UnknownAge == <<"u", "n", "k", "n", "o", "w", "n", " ", "a", "g", "e">>

NinetyPlus == <<"9", "0", "+", " ">> \o Years

\* Lines 234-269.
coarsen_age(value) ==
    IF value = None \/ value = <<>> THEN UnknownAge
    ELSE LET match == RE_AGE_search(value)
         IN  IF ~match.found THEN sanitize_free_text(value)
             ELSE LET age == int(match.group1)
                      unit_raw == lower(IF match.group2 = None THEN Years ELSE match.group2)
                      unit == unit_map(unit_raw)
                  IN  IF age >= 90 THEN NinetyPlus
                      ELSE str(low(age)) \o <<"-">> \o str(high(age)) \o <<" ">> \o unit

\* ---- calls of the gateway
\* One call: the function, its inputs, and its outcome.  `parts` records
\* the pieces an age text of the catalogue was put together from.
MaxOcrEntries == 2

OcrEntry(chars, conf, w, h) == [chars |-> chars, conf |-> conf, w |-> w, h |-> h]

OcrEntries ==
    {OcrEntry(4, 91, 20, 10), OcrEntry(1, 91, 20, 10), OcrEntry(4, 39, 20, 10),
     OcrEntry(4, 91, 0, 10), OcrEntry(2, 40, 1, 1)}

SeqsUpTo(S, n) == UNION {[1..k -> S] : k \in 0..n}

OcrOutcomes ==
    {[engine |-> "none", data |-> <<>>], [engine |-> "fails", data |-> <<>>]}
        \cup {[engine |-> "ok", data |-> d] : d \in SeqsUpTo(OcrEntries, MaxOcrEntries)}

EnvSettings ==
    {Unset, EnvText(<<>>), EnvText(Block), EnvText(Mask), EnvText(Allow),
     EnvText(<<"B", "L", "O", "C", "K">>), EnvText(<<" ", "M", "a", "s", "k">>),
     EnvText(<<"A", "L", "L", "O", "W", "\n">>), EnvText(<<"r", "e", "d", "a", "c", "t">>),
     EnvText(<<"m", "a", "s", "k", "s">>), EnvText(<<"n", "o", "n", "e">>)}

Payloads == {"dicom", "image", "unsupported"}

NoParts == [prefix |-> <<>>, digits |-> <<>>, gap |-> <<>>, word |-> <<>>]

ImageCalls ==
    {[fn |-> "image", env |-> e, payload |-> p, ocr |-> o, value |-> None, parts |-> NoParts,
      st |-> "called", out |-> None] : e \in EnvSettings, p \in Payloads, o \in OcrOutcomes}

AgeDigits == {"0", "3", "4", "5", "7", "8", "9"}

AgeNumbers ==
    (SeqsUpTo(AgeDigits, 2) \ {<<>>})
        \cup {<<"0", "0", "7">>, <<"0", "9", "0">>, <<"1", "0", "0">>, <<"1", "2", "3">>,
              <<"9", "9", "9">>, <<"1", "2", "3", "4">>, <<"1", "2", "3", "4", "5", "6", "7">>}

AgeWords ==
    {UnitAlternatives[i] : i \in 1..Len(UnitAlternatives)}
        \cup {<<>>, <<"A", "N", "O", "S">>, <<"Y", "e", "a", "r", "s">>, <<"y", "o">>,
              <<"d", "a", "y", "s", "o", "l", "d">>}

AgeParts ==
    [prefix : {<<>>, <<"A", "g", "e", ":", " ">>},
     digits : AgeNumbers,
     gap : {<<>>, <<" ">>},
     word : AgeWords]

TextOf(parts) == parts.prefix \o parts.digits \o parts.gap \o parts.word

AgeCall(value, parts) ==
    [fn |-> "age", env |-> Unset, payload |-> "image", ocr |-> [engine |-> "none", data |-> <<>>],
     value |-> value, parts |-> parts, st |-> "called", out |-> None]

AgeCalls ==
    {AgeCall(TextOf(parts), parts) : parts \in AgeParts}
        \cup {AgeCall(None, NoParts), AgeCall(<<>>, NoParts), AgeCall(<<" ">>, NoParts)}

NoCall == AgeCall(None, NoParts)

\* ------------------------------------------------------------ the engine
\* matplotlib's outcome per overlay: saved or raised (L3, BMD), and how many
\* of the three hemorrhage overlays were saved before it raised.
PlotAllSaved == [l3 |-> TRUE, bleed |-> Len(BleedLabels), bmd |-> TRUE]

Init ==
    /\ case \in Cases
    /\ pc = "start"
    /\ modality = "CT"
    /\ kvp_raw = Str("Unknown")
    /\ results = [k \in {} |-> None]
    /\ overlays = {}
    /\ plot = PlotAllSaved
    /\ lock = FALSE
    /\ req = [r \in 1..NReq |-> "idle"]
    /\ call = NoCall

\* Faulty variant: the result mapping of the previous call is reused
\* instead of a fresh one being created.
Start_ReusesDict ==
    /\ pc = "start"
    /\ modality' = SidecarModality(case.sidecar)
    /\ kvp_raw' = SidecarKvp(case.sidecar)
    /\ results' = Envelope(case) @@ results
    /\ pc' = IF case.ct.st = "ok" THEN "organs" ELSE "raised"
    /\ UNCHANGED <<case, overlays, plot, lock, req, call>>

\* Lines 102-135: regions, sidecar, the envelope, and the load of the
\* intensity volume, which is outside every try block.
Start ==
    /\ pc = "start"
    /\ modality' = SidecarModality(case.sidecar)
    /\ kvp_raw' = SidecarKvp(case.sidecar)
    /\ results' = Envelope(case)
    /\ pc' = IF case.ct.st = "ok" THEN "organs" ELSE "raised"
    /\ UNCHANGED <<case, overlays, plot, lock, req, call>>

Organs ==
    /\ pc = "organs"
    /\ results' = OrganLoop(case, modality, kvp_raw, results, 1)
    /\ pc' = "l3"
    /\ UNCHANGED <<case, modality, kvp_raw, overlays, plot, lock, req, call>>

L3Sarcopenia ==
    /\ pc = "l3"
    /\ \E render \in (IF L3Overlays(case, modality, {}, TRUE) # {} THEN BOOLEAN ELSE {TRUE}) :
          /\ plot' = [plot EXCEPT !.l3 = render]
          /\ overlays' = L3Overlays(case, modality, overlays, render)
    /\ results' = L3Results(case, modality, results)
    /\ pc' = "bleed"
    /\ UNCHANGED <<case, modality, kvp_raw, lock, req, call>>

Hemorrhage ==
    /\ pc = "bleed"
    /\ \E rendered \in (IF BleedOverlayLoop(case, modality)
                        THEN 0..Len(BleedLabels) ELSE {Len(BleedLabels)}) :
          /\ plot' = [plot EXCEPT !.bleed = rendered]
          /\ overlays' = HemorrhageOverlays(case, modality, overlays, rendered)
          /\ results' = HemorrhageResults(case, modality, results, rendered)
    /\ pc' = "bmd"
    /\ UNCHANGED <<case, modality, kvp_raw, lock, req, call>>

BoneDensity ==
    /\ pc = "bmd"
    /\ results' = BmdResults(case, modality, results)
    /\ \E render \in (IF Has(results', "L1_bmd_classification") THEN BOOLEAN ELSE {TRUE}) :
          /\ plot' = [plot EXCEPT !.bmd = render]
          /\ overlays' = BmdOverlays(results', overlays, render)
    /\ pc' = "lungs"
    /\ UNCHANGED <<case, modality, kvp_raw, lock, req, call>>

Emphysema ==
    /\ pc = "lungs"
    /\ results' = EmphysemaResults(case, modality, results)
    /\ pc' = "returned"
    /\ UNCHANGED <<case, modality, kvp_raw, overlays, plot, lock, req, call>>

Next == Start \/ Organs \/ L3Sarcopenia \/ Hemorrhage \/ BoneDensity \/ Emphysema

Spec == Init /\ [][Next]_vars

\* -------------------------------------------- one case after another
\* The batch script calls the engine for one case folder after another, in
\* one process: whatever the previous call left behind (its locals, the
\* overlay files it wrote) is still there when the next call starts.
RerunCases ==
    {CaseOf(s, SoftTissueCt, FilesOf(pick)) : s \in CtOrMr, pick \in {Absent, Good, Failing}}
        \cup {CaseOf(Sidecar("CT", "120"), CtUnreadable, FilesOf(Good))}

InitRerun ==
    /\ case \in RerunCases
    /\ pc = "start"
    /\ modality = "CT"
    /\ kvp_raw = Str("Unknown")
    /\ results = [k \in {} |-> None]
    /\ overlays = {}
    /\ plot = PlotAllSaved
    /\ lock = FALSE
    /\ req = [r \in 1..NReq |-> "idle"]
    /\ call = NoCall

NextCase ==
    /\ pc \in {"returned", "raised"}
    /\ case' \in RerunCases
    /\ pc' = "start"
    /\ plot' = PlotAllSaved
    /\ UNCHANGED <<modality, kvp_raw, results, overlays, lock, req, call>>

NextRerun == Next \/ NextCase

SpecRerun == InitRerun /\ [][NextRerun]_vars

\* ----------------------------------------- POST /process (the API)
\* A request's position in the handler `process` and, once it holds the
\* lock, in process_case, which runs in the executor thread:
\*   idle -> upload -> waiting -> segmentation -> metrics -> returned -> done
\* with "rejected" for a 503 / 400 before the lock and "failed" for an
\* exception of process_case.
Requests == 1..NReq

\* Positions inside process_case (lines 227-414).
InProcessCase == {"segmentation", "metrics"}

\* Lines 523-528: readiness and file-name validation.
Arrive(r) ==
    /\ req[r] = "idle"
    /\ \E next \in {"upload", "rejected"} : req' = [req EXCEPT ![r] = next]
    /\ UNCHANGED <<lock, call, engine_vars>>

\* Lines 531-540: the upload is written to a temporary file.
Save(r) ==
    /\ req[r] = "upload"
    /\ \E next \in {"waiting", "rejected"} : req' = [req EXCEPT ![r] = next]
    /\ UNCHANGED <<lock, call, engine_vars>>

\* Faulty variant: the pipeline is started without waiting for the lock.
Acquire_WithoutWaiting(r) ==
    /\ req[r] = "waiting"
    /\ lock' = TRUE
    /\ req' = [req EXCEPT ![r] = "segmentation"]
    /\ UNCHANGED <<call, engine_vars>>

\* Line 543, `async with state.lock`, and lines 546-548: the request that
\* gets the lock starts process_case in the executor.
Acquire(r) ==
    /\ req[r] = "waiting"
    /\ lock = FALSE
    /\ lock' = TRUE
    /\ req' = [req EXCEPT ![r] = "segmentation"]
    /\ UNCHANGED <<call, engine_vars>>

\* process_case, STEP 1 (lines 279-320): segmentation ends or raises.
Segment(r) ==
    /\ req[r] = "segmentation"
    /\ \E next \in {"metrics", "failed"} : req' = [req EXCEPT ![r] = next]
    /\ UNCHANGED <<lock, call, engine_vars>>

\* process_case, STEP 2 to the end (lines 322-414): calculate_all_metrics
\* returns and the result is stored, or an exception becomes HTTP 500.
Metrics(r) ==
    /\ req[r] = "metrics"
    /\ \E next \in {"returned", "failed"} : req' = [req EXCEPT ![r] = next]
    /\ UNCHANGED <<lock, call, engine_vars>>

\* Lines 550-558: the response or the HTTP error leaves the `async with`
\* block, which releases the lock.
Release(r) ==
    /\ req[r] \in {"returned", "failed"}
    /\ lock' = FALSE
    /\ req' = [req EXCEPT ![r] = "done"]
    /\ UNCHANGED <<call, engine_vars>>

InitApi ==
    /\ case = CaseOf(Sidecar("CT", "120"), SoftTissueCt, NoFiles)
    /\ pc = "start"
    /\ modality = "CT"
    /\ kvp_raw = Str("Unknown")
    /\ results = [k \in {} |-> None]
    /\ overlays = {}
    /\ plot = PlotAllSaved
    /\ lock = FALSE
    /\ req = [r \in Requests |-> "idle"]
    /\ call = NoCall

NextApi ==
    \E r \in Requests :
        Arrive(r) \/ Save(r) \/ Acquire(r) \/ Segment(r) \/ Metrics(r) \/ Release(r)

SpecApi == InitApi /\ [][NextApi]_vars

\* ------------------------------------------- calls of the gateway
DeidentifyImage ==
    /\ call.fn = "image"
    /\ call.st = "called"
    /\ LET r == deidentify_image_payload(call.env, call.payload, call.ocr)
       IN  call' = [call EXCEPT !.st = r.st, !.out = r.out]
    /\ UNCHANGED <<engine_vars, api_vars>>

CoarsenAge ==
    /\ call.fn = "age"
    /\ call.st = "called"
    /\ call' = [call EXCEPT !.st = "returned", !.out = coarsen_age(call.value)]
    /\ UNCHANGED <<engine_vars, api_vars>>

InitGateway ==
    /\ case = CaseOf(Sidecar("CT", "120"), SoftTissueCt, NoFiles)
    /\ pc = "start"
    /\ modality = "CT"
    /\ kvp_raw = Str("Unknown")
    /\ results = [k \in {} |-> None]
    /\ overlays = {}
    /\ plot = PlotAllSaved
    /\ lock = FALSE
    /\ req = [r \in Requests |-> "idle"]
    /\ call \in ImageCalls \cup AgeCalls

NextGateway == DeidentifyImage \/ CoarsenAge

SpecGateway == InitGateway /\ [][NextGateway]_vars

\* calculate_all_metrics as a function of the case and of matplotlib's
\* behaviour: the mapping it returns (None when the call raises).
calculate_all_metrics(c, p) ==
    LET mod == SidecarModality(c.sidecar)
        r2 == OrganLoop(c, mod, SidecarKvp(c.sidecar), Envelope(c), 1)
        r3 == L3Results(c, mod, r2)
        r4 == HemorrhageResults(c, mod, r3, p.bleed)
        r5 == BmdResults(c, mod, r4)
    IN  IF c.ct.st # "ok" THEN None ELSE EmphysemaResults(c, mod, r5)

TypeOK ==
    /\ pc \in {"start", "organs", "l3", "bleed", "bmd", "lungs", "returned", "raised"}
    /\ modality \in {"CT", "MR"}
    /\ overlays \subseteq {"L3_overlay.png", "L1_BMD_overlay.png", "bleed_overlay_inferior_15.png",
                           "bleed_overlay_center_50.png", "bleed_overlay_superior_85.png"}
    /\ pc = "returned" => results = calculate_all_metrics(case, plot)

\* ================================================================ claims
Returned == pc = "returned"

Status == IF Has(results, "lung_analysis_status") THEN results["lung_analysis_status"] ELSE None

LobeFile(lobe) == FileOf(case, lobe)

\* A lobe's volume as popcount x voxel volume, in eighths of a mm3, and as
\* the volume metric (thousandths of a cm3, 0 for an unreadable file).
RawLobeVolume(lobe) ==
    Cardinality(LobeFile(lobe).vox) * LobeFile(lobe).zooms[1] * LobeFile(lobe).zooms[2]
        * LobeFile(lobe).zooms[3]

LobeVolume(lobe) == IF Loads(LobeFile(lobe)) THEN RoundDiv(RawLobeVolume(lobe), 8) ELSE 0

LobeEmphysemaKeys ==
    UNION {{l \o "_emphysema_percent", l \o "_vol_cm3", l \o "_emphysema_vol_cm3"} : l \in LobeNames}

TotalLungKeys ==
    {"total_lung_emphysema_percent", "total_lung_vol_cm3", "total_lung_emphysema_vol_cm3"}

EmphysemaVoxels(lobe) ==
    Cardinality({v \in LobeFile(lobe).vox : HU(case.ct, v) < EmphysemaThreshold})

\* C1: for a CT case whose five lobe masks all exist, meet their minimum
\* volume and lie on the intensity grid, the result has status "Complete",
\* the three emphysema keys of every lobe, and the voxel-weighted total
\* 100 x (emphysema voxels of all lobes) / (voxels of all lobes).
C1_EmphysemaComplete ==
    (/\ Returned
     /\ modality = "CT"
     /\ \A l \in LobeNames :
            /\ Loads(LobeFile(l))
            /\ LobeFile(l).shape = case.ct.shape
            /\ LobeVolume(l) >= lobe_min_volumes_cm3(l))
    => /\ Status = Str("Complete")
       /\ LobeEmphysemaKeys \subseteq DOMAIN results
       /\ Has(results, "total_lung_emphysema_percent")
       /\ results["total_lung_emphysema_percent"] =
            Num(RoundDiv(10000 * SumOver(LobeNames, [l \in LobeNames |-> EmphysemaVoxels(l)]),
                         SumOver(LobeNames, [l \in LobeNames |-> Cardinality(LobeFile(l).vox)])))

GateFails ==
    \/ \E l \in LobeNames : ~Exists(LobeFile(l))
    \/ \E l \in LobeNames : LobeVolume(l) < lobe_min_volumes_cm3(l)
    \/ modality # "CT"

\* C2: when a lobe mask file is missing, or a lobe's volume is below its
\* minimum, or the modality is not CT, the result has status
\* "Incomplete or non-CT" and neither a per-lobe emphysema key nor a
\* total_lung_* key.
C2_GateFailsIncomplete ==
    (Returned /\ GateFails)
    => /\ Status = Str("Incomplete or non-CT")
       /\ (LobeEmphysemaKeys \cup TotalLungKeys) \cap DOMAIN results = {}

C2_Witness ==
    /\ Returned
    /\ modality = "CT"
    /\ \A l \in LobeNames : Loads(LobeFile(l))
    /\ \E l \in LobeNames : LobeVolume(l) < lobe_min_volumes_cm3(l)
    /\ \E l \in LobeNames : LobeVolume(l) >= lobe_min_volumes_cm3(l)
    /\ Status = Str("Incomplete or non-CT")

AllLobesLoad == \A l \in LobeNames : Loads(LobeFile(l))

GatePassed == Status # Str("Incomplete or non-CT")

\* C3: for a CT case with all five lobes readable, the gate excludes a lobe
\* only when popcount x voxel volume is strictly below its minimum: with
\* every lobe at or above its minimum (exactly at it included) the gate
\* passes, and a lobe 0.01 cm3 below its minimum makes it fail.
C3_GateBoundary ==
    (Returned /\ modality = "CT" /\ AllLobesLoad)
    => /\ (\A l \in LobeNames : RawLobeVolume(l) >= 8 * lobe_min_volumes_cm3(l)) => GatePassed
       /\ (\E l \in LobeNames : RawLobeVolume(l) = 8 * (lobe_min_volumes_cm3(l) - 10))
             => ~GatePassed

C3_Witness ==
    /\ Returned
    /\ modality = "CT"
    /\ AllLobesLoad
    /\ \A l \in LobeNames : RawLobeVolume(l) = 8 * lobe_min_volumes_cm3(l)
    /\ GatePassed

BleedFile == FileOf(case, "intracerebral_hemorrhage")

BleedVolumePositive ==
    /\ Has(results, "hemorrhage_vol_cm3")
    /\ results["hemorrhage_vol_cm3"][2] > 0

\* C4: whenever the hemorrhage volume is positive the result reports the
\* volume and the three representative slice indices; a shape mismatch
\* between hemorrhage mask and intensity volume (CT, no plotting failure)
\* suppresses the overlays only.
C4_IndicesWithVolume ==
    (Returned /\ modality = "CT" /\ plot.bleed = Len(BleedLabels)
        /\ Loads(BleedFile) /\ get_volume_cm3(BleedFile) > 0)
    => /\ BleedVolumePositive
       /\ Has(results, "hemorrhage_analysis_slices")

BleedIndexSet == {v[3] : v \in BleedFile.vox}

\* The element at 0-based position k of the ascending order of a set.
AtPosition(Z, k) == CHOOSE z \in Z : Cardinality({y \in Z : y < z}) = k

ReportedSlice(label) == results["hemorrhage_analysis_slices"][2][label]

\* C5: for a hemorrhage mask with at least 3 distinct axial indices, the
\* reported indices are ordered inferior_15 <= center_50 <= superior_85 and
\* each is the index at position min(floor(n * p), n - 1) of the ascending
\* index set of the mask, p = 0.15, 0.50, 0.85.
C5_SlicesOrdered ==
    (Returned /\ Has(results, "hemorrhage_analysis_slices") /\ Cardinality(BleedIndexSet) >= 3)
    => LET n == Cardinality(BleedIndexSet)
       IN  /\ ReportedSlice("inferior_15") <= ReportedSlice("center_50")
           /\ ReportedSlice("center_50") <= ReportedSlice("superior_85")
           /\ ReportedSlice("inferior_15") = AtPosition(BleedIndexSet, Min2((n * 15) \div 100, n - 1))
           /\ ReportedSlice("center_50") = AtPosition(BleedIndexSet, Min2((n * 50) \div 100, n - 1))
           /\ ReportedSlice("superior_85") = AtPosition(BleedIndexSet, Min2((n * 85) \div 100, n - 1))

C5_Witness ==
    /\ Returned
    /\ Has(results, "hemorrhage_analysis_slices")
    /\ Cardinality(BleedIndexSet) = NZ
    /\ ReportedSlice("inferior_15") > 0
    /\ ReportedSlice("inferior_15") < ReportedSlice("center_50")
    /\ ReportedSlice("center_50") < ReportedSlice("superior_85")

OrganNames == {organs_map[i] : i \in DOMAIN organs_map}

InputNames(a) ==
    CASE a = "organs" -> OrganNames
      [] a = "l3" -> {"vertebrae_L3", "skeletal_muscle"}
      [] a = "bleed" -> {"intracerebral_hemorrhage"}
      [] a = "bmd" -> {"vertebrae_L1"}
      [] a = "lungs" -> LobeNames

L3Keys == {"slice_L3", "SMA_cm2", "muscle_HU_mean", "muscle_HU_std"}

BleedKeys == {"hemorrhage_vol_cm3", "hemorrhage_analysis_slices"}

BmdKeys ==
    {"L1_trabecular_HU_mean", "L1_trabecular_HU_std", "L1_trabecular_voxel_count",
     "L1_bmd_classification"}

KeysOf(a) ==
    CASE a = "organs" ->
            UNION {{o \o "_vol_cm3", o \o "_hu_mean", o \o "_hu_std"} : o \in OrganNames}
                \cup {"liver_pdff_percent", "liver_pdff_kvp"}
      [] a = "l3" -> L3Keys
      [] a = "bleed" -> BleedKeys
      [] a = "bmd" -> BmdKeys
      [] a = "lungs" ->
            LobeEmphysemaKeys \cup {l \o "_total_voxels" : l \in LobeNames}
                \cup TotalLungKeys \cup {"lung_analysis_status"}

\* The part of a result that the analyzers other than `a` write.
OtherKeys(r, a) ==
    [k \in (DOMAIN r) \cap UNION {KeysOf(b) : b \in Analyzers \ {a}} |-> r[k]]

\* The case with the input files of analyzer `a` removed.
CaseWithout(c, a) ==
    [c EXCEPT !.files = [n \in (DOMAIN c.files) \ InputNames(a) |-> c.files[n]]]

\* Analyzer `a` fails on its own inputs: an unreadable or shape-mismatched
\* mask, an exception in its computation, or a plotting exception.
Fails(a) ==
    \/ \E n \in InputNames(a) :
          /\ Exists(FileOf(case, n))
          /\ ~Loads(FileOf(case, n)) \/ FileOf(case, n).shape # case.ct.shape
    \/ a = "l3" /\ (L3Raises(case, modality) \/ ~plot.l3)
    \/ a = "bleed" /\ plot.bleed < Len(BleedLabels)
    \/ a = "bmd" /\ ~plot.bmd

\* C6: when an analyzer fails on its own inputs, the analyzers after it
\* still run (the last one always writes lung_analysis_status) and the
\* keys of the other analyzers are those of the same case with the failing
\* analyzer's input files absent.
C6_PartialResults ==
    Returned
    => /\ Has(results, "lung_analysis_status")
       /\ \A a \in Analyzers :
            Fails(a) => OtherKeys(results, a)
                          = OtherKeys(calculate_all_metrics(CaseWithout(case, a), plot), a)

C6_Witness ==
    /\ Returned
    /\ Fails("l3")
    /\ L3Raises(case, modality)
    /\ Fails("organs")
    /\ BleedKeys \subseteq DOMAIN results
    /\ BmdKeys \subseteq DOMAIN results
    /\ Has(results, "spleen_hu_mean")

\* C7: calculate_all_metrics never raises: for every combination of
\* missing, unreadable or mismatched inputs it returns a result holding at
\* least case_id, body_regions and modality.
C7_NeverRaises ==
    /\ pc # "raised"
    /\ Returned => {"case_id", "body_regions", "modality"} \subseteq DOMAIN results

\* C8: an analyzer that hits an exception part-way leaves none of its keys:
\* no slice_L3, SMA_cm2 or muscle_HU_* after an exception in the L3
\* analysis, no hemorrhage_* key after one in the hemorrhage analysis.
C8_NoKeysAfterException ==
    Returned
    => /\ L3Raises(case, modality) => L3Keys \cap DOMAIN results = {}
       /\ (BleedOverlayLoop(case, modality) /\ plot.bleed < Len(BleedLabels))
             => BleedKeys \cap DOMAIN results = {}

Plots == [l3 : BOOLEAN, bleed : 0..Len(BleedLabels), bmd : BOOLEAN]

\* C9: the returned keys and values do not depend on whether an overlay is
\* rendered, fails while rendering, or is skipped.
C9_OverlaysSideChannel ==
    Returned => \A p \in Plots : calculate_all_metrics(case, p) = results

IsMR == case.sidecar.st = "ok" /\ case.sidecar.Modality = "MR"

NullOrAbsent(k) == Has(results, k) => results[k] = None

\* C10: for an MR case every organ *_hu_mean / *_hu_std and every
\* muscle_HU_* value is null or absent, liver_pdff_percent and every L1_*
\* key are absent, and no emphysema percentage is reported.
C10_MrHasNoDensity ==
    (Returned /\ IsMR)
    => /\ \A o \in OrganNames : NullOrAbsent(o \o "_hu_mean") /\ NullOrAbsent(o \o "_hu_std")
       /\ NullOrAbsent("muscle_HU_mean")
       /\ NullOrAbsent("muscle_HU_std")
       /\ ~Has(results, "liver_pdff_percent")
       /\ BmdKeys \cap DOMAIN results = {}
       /\ ~Has(results, "total_lung_emphysema_percent")
       /\ \A l \in LobeNames : ~Has(results, l \o "_emphysema_percent")

C10_Witness ==
    /\ Returned
    /\ IsMR
    /\ results["liver_vol_cm3"][2] > 100
    /\ FileOf(case, "liver").shape = case.ct.shape
    /\ Has(results, "SMA_cm2")
    /\ Loads(FileOf(case, "vertebrae_L1"))
    /\ FileOf(case, "vertebrae_L1").shape = case.ct.shape
    /\ lobes_complete(case)

OrganFile(organ) == FileOf(case, organ)

\* A mask the density can be measured in: it loads, has a positive voxel
\* and has the shape of the intensity volume.
Measurable(m) == Loads(m) /\ m.vox # {} /\ m.shape = case.ct.shape

\* C11: for a CT case, <organ>_hu_mean and <organ>_hu_std are present for
\* each of the four organs; both are null when the mask file is absent (or
\* cannot be loaded), has no positive voxel, or has another shape than the
\* intensity volume, and both are numbers otherwise.
C11_OrganDensityNulls ==
    (Returned /\ modality = "CT")
    => \A o \in OrganNames :
          /\ Has(results, o \o "_hu_mean")
          /\ Has(results, o \o "_hu_std")
          /\ ~Measurable(OrganFile(o))
                => results[o \o "_hu_mean"] = None /\ results[o \o "_hu_std"] = None
          /\ Measurable(OrganFile(o))
                => results[o \o "_hu_mean"] # None /\ results[o \o "_hu_std"] # None

C11_Witness ==
    /\ Returned
    /\ modality = "CT"
    /\ \E o \in OrganNames : Measurable(OrganFile(o)) /\ results[o \o "_hu_mean"] # None
    /\ \E o \in OrganNames : Loads(OrganFile(o)) /\ OrganFile(o).vox = {}
    /\ \E o \in OrganNames : ~Exists(OrganFile(o))

PdffKeys == {o \o suffix : o \in OrganNames, suffix \in {"_pdff_percent", "_pdff_kvp"}}

\* The KVP tag of the sidecar as the result carries it.
RawKvp ==
    IF case.sidecar.st # "ok" \/ case.sidecar.KVP = "missing" THEN Str("Unknown")
    ELSE IF case.sidecar.KVP = "null" THEN None
    ELSE Str(case.sidecar.KVP)

\* C12: liver_pdff_percent is present exactly when the modality is CT,
\* liver_vol_cm3 > 0.1 and liver_hu_mean is not null; spleen and kidneys
\* never get a PDFF key; liver_pdff_kvp is present exactly when
\* liver_pdff_percent is, and holds the raw KVP tag of the sidecar,
\* "Unknown" when there is none.
C12_PdffGate ==
    Returned
    => /\ Has(results, "liver_pdff_percent")
            <=> (/\ modality = "CT"
                 /\ results["liver_vol_cm3"][2] > 100
                 /\ results["liver_hu_mean"] # None)
       /\ PdffKeys \cap DOMAIN results \subseteq {"liver_pdff_percent", "liver_pdff_kvp"}
       /\ Has(results, "liver_pdff_kvp") <=> Has(results, "liver_pdff_percent")
       /\ Has(results, "liver_pdff_kvp") => results["liver_pdff_kvp"] = RawKvp

C12_Witness ==
    /\ Returned
    /\ case.sidecar.st = "ok"
    /\ case.sidecar.KVP = "missing"
    /\ Has(results, "liver_pdff_percent")
    /\ results["liver_pdff_kvp"] = Str("Unknown")

\* C13: a reported liver_pdff_percent lies in [0, 100] and is
\* clamp(-0.58 * hu_mean + 38.2, 0, 100) of the reported liver_hu_mean, to
\* the 2 decimals it is reported with: 100 at -1000 HU, 0 at 1000 HU.
\* (hu in hundredths of a HU, pdff in hundredths of a percent, the linear
\* term in ten-thousandths.)
C13_PdffClamped ==
    (Returned /\ Has(results, "liver_pdff_percent"))
    => LET hu == results["liver_hu_mean"][2]
           pdff == results["liver_pdff_percent"][2]
           linear == 382000 - 58 * hu
       IN  /\ 0 <= pdff /\ pdff <= 10000
           /\ linear >= 1000000 => pdff = 10000
           /\ linear <= 0 => pdff = 0
           /\ (0 < linear /\ linear < 1000000) => Abs(100 * pdff - linear) <= 50
           /\ hu = -100000 => pdff = 10000
           /\ hu = 100000 => pdff = 0

C13_Witness ==
    /\ Returned
    /\ Has(results, "liver_pdff_percent")
    /\ results["liver_hu_mean"] = Num(-100000)
    /\ results["liver_pdff_percent"] = Num(10000)

\* popcount x spacing_x x spacing_y x spacing_z of a loaded mask, in
\* eighths of a mm3 (the spacings are in half millimetres).
RawVolume(m) == Cardinality(m.vox) * m.zooms[1] * m.zooms[2] * m.zooms[3]

\* C14: the volume reported for an organ mask that loads is popcount x
\* spacing_x x spacing_y x spacing_z / 1000 to the nearest thousandth of a
\* cm3; it is 0.0 for an all-zero mask, for a missing file and for a file
\* that fails to load, and the call returns in each of these cases.
C14_VolumeFormula ==
    Returned
    => \A o \in OrganNames :
          LET m == OrganFile(o)
              vol == results[o \o "_vol_cm3"]
          IN  /\ Has(results, o \o "_vol_cm3")
              /\ vol[1] = "num"
              /\ Loads(m) => Abs(8 * vol[2] - RawVolume(m)) <= 4
              /\ (Loads(m) /\ m.vox = {}) => vol = Num(0)
              /\ ~Exists(m) => vol = Num(0)
              /\ (Exists(m) /\ ~Loads(m)) => vol = Num(0)

C14_Witness ==
    /\ Returned
    /\ \E o \in OrganNames :
          /\ Loads(OrganFile(o))
          /\ RawVolume(OrganFile(o)) % 8 > 4
          /\ 8 * results[o \o "_vol_cm3"][2] > RawVolume(OrganFile(o))
    /\ \E o \in OrganNames :
          /\ Exists(OrganFile(o)) /\ ~Loads(OrganFile(o))
          /\ results[o \o "_vol_cm3"] = Num(0)

\* C15: L1_bmd_classification is one of Normal, Osteopenia, Osteoporosis and
\* follows the trabecular mean: above 160 HU Normal, from 100 to 160 HU
\* Osteopenia, below 100 HU Osteoporosis.
C15_ClassificationStep ==
    (Returned /\ Has(results, "L1_bmd_classification"))
    => LET mean == results["L1_trabecular_HU_mean"][2]
           class == results["L1_bmd_classification"]
       IN  /\ class \in {Str("Normal"), Str("Osteopenia"), Str("Osteoporosis")}
           /\ mean > 16000 => class = Str("Normal")
           /\ (10000 <= mean /\ mean <= 16000) => class = Str("Osteopenia")
           /\ mean < 10000 => class = Str("Osteoporosis")

L1File == FileOf(case, "vertebrae_L1")

\* The pixels of S whose whole city-block neighbourhood of radius k lies
\* in S: what k erosion passes with the cross element leave.
Core(S, k) ==
    {p \in S : \A dx \in (-k)..k, dy \in (-k)..k :
                  Abs(dx) + Abs(dy) <= k => <<p[1] + dx, p[2] + dy>> \in S}

\* The eroded vertebral body of the central L1 slice.
L1Body ==
    LET mask_2d == Plane(L1File, MiddleOf(ZIndices(L1File)))
    IN  LargestComponent(Core(mask_2d, erosion_iters(L1File.zooms)))

L1Measured ==
    /\ modality = "CT"
    /\ Loads(L1File)
    /\ L1File.shape = case.ct.shape
    /\ L1File.vox # {}
    /\ L1Body # {}
    /\ roi_mask(Plane(L1File, MiddleOf(ZIndices(L1File))), L1Body) # {}

\* C16: an L1_* key is in the result only for a CT case whose vertebrae_L1
\* mask exists with the shape of the intensity volume, has a non-empty
\* axial slice, a non-empty eroded body and a non-empty intersection of
\* ellipse and body; otherwise no BMD key is written, and in either case
\* the emphysema analyzer runs after it (lung_analysis_status is written).
C16_BmdOnlyWhenMeasured ==
    /\ pc \in {"lungs", "returned"} => (BmdKeys \cap DOMAIN results # {} => L1Measured)
    /\ Returned => Has(results, "lung_analysis_status")

C16_Witness ==
    /\ Returned
    /\ modality = "CT"
    /\ Loads(L1File)
    /\ L1File.shape = case.ct.shape
    /\ L1File.vox # {}
    /\ L1Body # {}
    /\ ~L1Measured
    /\ BmdKeys \cap DOMAIN results = {}
    /\ Has(results, "lung_analysis_status")

L3File == FileOf(case, "vertebrae_L3")

MuscleFile == FileOf(case, "skeletal_muscle")

L3IndexSet == {v[3] : v \in L3File.vox}

\* C17: slice_L3 is the index at position floor(n / 2) of the ascending
\* order of the n axial indices where the vertebrae_L3 mask has a positive
\* voxel; with n = 0 (or no readable mask) no sarcopenia key is written;
\* without a skeletal_muscle file slice_L3 is written and SMA_cm2 is not.
C17_SliceL3Middle ==
    Returned
    => LET n == Cardinality(L3IndexSet)
       IN  /\ (Loads(L3File) /\ n > 0)
                => /\ Has(results, "slice_L3")
                   /\ results["slice_L3"] = Num(AtPosition(L3IndexSet, n \div 2))
           /\ (~Loads(L3File) \/ n = 0) => L3Keys \cap DOMAIN results = {}
           /\ (Loads(L3File) /\ n > 0 /\ ~Exists(MuscleFile)) => ~Has(results, "SMA_cm2")

C17_Witness ==
    /\ Returned
    /\ Cardinality(L3IndexSet) = 4
    /\ L3IndexSet = {0, 2, 5, 6}
    /\ ~Exists(MuscleFile)
    /\ results["slice_L3"] = Num(5)
    /\ ~Has(results, "SMA_cm2")

\* The muscle voxels at the reported L3 slice.
MuscleAtL3 == SliceOf(MuscleFile, results["slice_L3"][2])

\* C18: whenever SMA_cm2 is reported, muscle_HU_mean and muscle_HU_std are
\* reported too: both 0.0 for CT without a muscle voxel at the L3 slice,
\* numbers for CT with muscle voxels, both null for MR.
C18_MuscleDensityWithSma ==
    (Returned /\ Has(results, "SMA_cm2"))
    => /\ Has(results, "muscle_HU_mean")
       /\ Has(results, "muscle_HU_std")
       /\ (modality = "CT" /\ MuscleAtL3 = {})
             => results["muscle_HU_mean"] = Num(0) /\ results["muscle_HU_std"] = Num(0)
       /\ (modality = "CT" /\ MuscleAtL3 # {})
             => results["muscle_HU_mean"][1] = "num" /\ results["muscle_HU_std"][1] = "num"
       /\ modality # "CT"
             => results["muscle_HU_mean"] = None /\ results["muscle_HU_std"] = None

BodyRegions == results["body_regions"][2]

CatalogIndex(region) == CHOOSE i \in DOMAIN RegionOrder : RegionOrder[i] = region

\* A characteristic file of the region loads and has a positive voxel.
HasStructure(region) ==
    \E i \in DOMAIN regions_map(region) :
        Loads(FileOf(case, regions_map(region)[i]))
            /\ FileOf(case, regions_map(region)[i]).vox # {}

\* C19: body_regions holds exactly the catalog regions that have a
\* characteristic file which loads with a positive voxel, each once and in
\* catalog order (head, neck, thorax, abdomen, pelvis, legs); a file that
\* fails to load counts as absent and the other files of its region still
\* count.
C19_BodyRegions ==
    Has(results, "body_regions")
    => /\ \A i \in DOMAIN RegionOrder :
            (\E k \in DOMAIN BodyRegions : BodyRegions[k] = RegionOrder[i])
                <=> HasStructure(RegionOrder[i])
       /\ \A k \in DOMAIN BodyRegions : \E i \in DOMAIN RegionOrder : BodyRegions[k] = RegionOrder[i]
       /\ \A j, k \in DOMAIN BodyRegions :
            j < k => CatalogIndex(BodyRegions[j]) < CatalogIndex(BodyRegions[k])

C19_Witness ==
    /\ Returned
    /\ Exists(FileOf(case, "skull")) /\ ~Loads(FileOf(case, "skull"))
    /\ Exists(FileOf(case, "sacrum")) /\ ~Loads(FileOf(case, "sacrum"))
    /\ BodyRegions = <<"head", "thorax", "legs">>

OnGrid(m) == m.shape = case.ct.shape

\* C20: an intensity-derived value (organ HU, muscle HU at L3, L1
\* trabecular HU, lobe emphysema percentage) is in the result only when
\* the mask it is measured in has exactly the shape of the intensity volume.
C20_ShapeCheckedBeforeUse ==
    Returned
    => /\ \A o \in OrganNames :
            (Has(results, o \o "_hu_mean") /\ results[o \o "_hu_mean"] # None)
                => OnGrid(OrganFile(o))
       /\ (Has(results, "muscle_HU_mean") /\ results["muscle_HU_mean"] # None)
             => OnGrid(MuscleFile)
       /\ Has(results, "L1_trabecular_HU_mean") => OnGrid(L1File)
       /\ \A l \in LobeNames : Has(results, l \o "_emphysema_percent") => OnGrid(LobeFile(l))

\* The mask directory holds a liver mask with a positive voxel on the
\* intensity grid and no other file.
OnlyLiver ==
    /\ Measurable(OrganFile("liver"))
    /\ \A n \in (DOMAIN case.files) \ {"liver"} : ~Exists(case.files[n])

LiverOnlyCommon ==
    /\ {"liver_vol_cm3", "liver_hu_mean", "liver_hu_std"} \subseteq DOMAIN results
    /\ results["liver_hu_mean"] # None
    /\ L3Keys \cap DOMAIN results = {}
    /\ BmdKeys \cap DOMAIN results = {}
    /\ (LobeEmphysemaKeys \cup TotalLungKeys) \cap DOMAIN results = {}
    /\ BodyRegions \in {<<>>, <<"abdomen">>}

\* C21 as stated: for a CT case whose only mask is a non-empty liver on the
\* intensity grid the result has the liver volume, density and PDFF keys,
\* no sarcopenia key, no BMD key, no emphysema key (lung_analysis_status
\* included), and body_regions is [] or ["abdomen"].
C21_LiverOnly_AsStated ==
    (Returned /\ modality = "CT" /\ OnlyLiver)
    => /\ LiverOnlyCommon
       /\ Has(results, "liver_pdff_percent")
       /\ ~Has(results, "lung_analysis_status")

\* C21 amended: as above, but lung_analysis_status is present with the
\* value "Incomplete or non-CT", and liver_pdff_percent is present exactly
\* when liver_vol_cm3 > 0.1.
C21_LiverOnly ==
    (Returned /\ modality = "CT" /\ OnlyLiver)
    => /\ LiverOnlyCommon
       /\ Has(results, "liver_pdff_percent") <=> results["liver_vol_cm3"][2] > 100
       /\ Status = Str("Incomplete or non-CT")

C21_Witness ==
    /\ Returned
    /\ modality = "CT"
    /\ OnlyLiver
    /\ Has(results, "liver_pdff_percent")
    /\ BodyRegions = <<"abdomen">>
    /\ Status = Str("Incomplete or non-CT")

C23_OnePipelineAtATime ==
    /\ Cardinality({r \in Requests : req[r] \in InProcessCase \cup {"returned", "failed"}}) <= 1
    /\ \A r \in Requests : req[r] \in InProcessCase \cup {"returned", "failed"} => lock

C23_Witness ==
    \E a, b, c \in Requests :
        /\ req[a] = "done"
        /\ req[b] = "metrics"
        /\ req[c] = "waiting"
        /\ lock


\* ---- C24
ImageDone == call.fn = "image" /\ call.st # "called"

\* The number of boxes the OCR step detected on the call's image.
DetectedBoxes ==
    IF call.ocr.engine # "ok" THEN 0
    ELSE Cardinality({i \in 1..Len(call.ocr.data) :
            LET e == call.ocr.data[i]
            IN  e.chars >= 2 /\ e.conf >= 40 /\ e.w > 0 /\ e.h > 0})

\* DEID_OCR_ACTION is set and spells `word`, up to case and surrounding
\* whitespace.
SetTo(word) == call.env.set /\ lower(strip(call.env.text)) = word

EffectiveBlock == ~SetTo(Mask) /\ ~SetTo(Allow)

\* C24: for a payload that decodes, deidentify_image_payload raises
\* DeidReviewRequiredError instead of returning whenever OCR detected at
\* least one box and DEID_OCR_ACTION is block, unset or unrecognised; with no
\* box it returns a JPEG with review_required and pixel_redaction false; and
\* a returned pixel_redaction is true only with boxes under action mask.
C24_BlockOnDetectedText ==
    (ImageDone /\ call.payload # "unsupported") =>
        /\ (DetectedBoxes >= 1 /\ EffectiveBlock) =>
                call.st = "raised" /\ call.out.exc = "DeidReviewRequiredError"
        /\ DetectedBoxes = 0 =>
                /\ call.st = "returned"
                /\ call.out.media_type = "image/jpeg"
                /\ call.out.review_required = FALSE
                /\ call.out.details.pixel_redaction = FALSE
        /\ (call.st = "returned" /\ call.out.details.pixel_redaction) =>
                DetectedBoxes >= 1 /\ SetTo(Mask)

C24_Witness ==
    /\ ImageDone
    /\ DetectedBoxes >= 1
    /\ call.env = EnvText(<<"r", "e", "d", "a", "c", "t">>)
    /\ call.st = "raised"
    /\ call.out.exc = "DeidReviewRequiredError"

\* ---- C25
AgeDone == call.fn = "age" /\ call.st = "returned"

\* The text states an age: one to three digits, alone or followed by a unit.
StatedUnits ==
    [days |-> {<<"d", "a", "y">>, <<"d", "a", "y", "s">>, <<"d", "i", "a">>, <<"d", "i", "a", "s">>},
     months |-> {<<"m", "o", "n", "t", "h">>, <<"m", "o", "n", "t", "h", "s">>, <<"m", "e", "s">>,
                 <<"m", "e", "s", "e", "s">>, <<"m", "ê", "s">>, <<"m", "ê", "s", "e", "s">>},
     years |-> {<<"y", "e", "a", "r">>, <<"y", "e", "a", "r", "s">>, <<"a", "n", "o">>,
                <<"a", "n", "o", "s">>, <<>>}]

Parseable ==
    /\ Len(call.parts.digits) \in 1..3
    /\ lower(call.parts.word) \in StatedUnits.days \cup StatedUnits.months \cup StatedUnits.years

StatedAge == int(call.parts.digits)

StatedUnit ==
    IF lower(call.parts.word) \in StatedUnits.days THEN Days
    ELSE IF lower(call.parts.word) \in StatedUnits.months THEN Months
    ELSE Years

\* The numbers written in a text: its maximal runs of digits.
NumberTokens(t) ==
    {SubSeq(t, x[1], x[2]) : x \in
        {y \in (1..Len(t)) \X (1..Len(t)) :
            /\ y[1] <= y[2]
            /\ \A k \in y[1]..y[2] : IsDigit(t[k])
            /\ ~(y[1] > 1 /\ IsDigit(t[y[1] - 1]))
            /\ ~(y[2] < Len(t) /\ IsDigit(t[y[2] + 1]))}}

\* C25: coarsen_age maps an age a < 90 to "L-H unit" with L = 5*floor(a/5),
\* H = L + 4 and the unit normalised to days, months or years (years when
\* missing), an age a >= 90 to "90+ years", an empty or missing value to
\* "unknown age"; for a < 90 the output does not contain a itself unless a
\* is L or H.
C25_AgeBands ==
    AgeDone =>
        /\ call.value \in {None, <<>>} => call.out = UnknownAge
        /\ (Parseable /\ StatedAge >= 90) =>
                call.out = <<"9", "0", "+", " ", "y", "e", "a", "r", "s">>
        /\ (Parseable /\ StatedAge < 90) =>
                LET L == 5 * (StatedAge \div 5)
                    H == L + 4
                IN  /\ call.out = str(L) \o <<"-">> \o str(H) \o <<" ">> \o StatedUnit
                    /\ StatedAge \notin {L, H} => str(StatedAge) \notin NumberTokens(call.out)

C25_Witness ==
    /\ AgeDone
    /\ call.parts.digits = <<"4", "3">>
    /\ call.parts.word = <<"A", "N", "O", "S">>
    /\ call.out = <<"4", "0", "-", "4", "4", " ", "y", "e", "a", "r", "s">>

\* ---- C26
\* The central L1 slice, and the cases in which the BMD analysis reaches it.
L1Plane == Plane(L1File, MiddleOf(ZIndices(L1File)))

L1Analysed ==
    /\ modality = "CT"
    /\ Loads(L1File)
    /\ L1File.shape = case.ct.shape
    /\ L1File.vox # {}

ReportedRoiCount ==
    IF Has(results, "L1_trabecular_voxel_count") THEN results["L1_trabecular_voxel_count"][2] ELSE 0

\* How far the centroids of the mask M and of the body B lie apart along
\* each array axis (over the common denominator |M| x |B|).
CentroidGapX(M, B) == Abs(SumX(M) * Cardinality(B) - SumX(B) * Cardinality(M))

CentroidGapY(M, B) == Abs(SumY(M) * Cardinality(B) - SumY(B) * Cardinality(M))

\* The pixels of the body B inside the ellipse that is sized by the AP
\* axis: diameter 40% of the bounding box along the AP axis, 70% along the
\* other one; centre at the midpoint of the other axis and 25% inward from
\* the anterior edge.  Centres in quarters of a pixel.
EllipseByApAxis(M, B) ==
    LET x_min == MinOf({p[1] : p \in B})
        x_max == MaxOf({p[1] : p \in B})
        y_min == MinOf({p[2] : p \in B})
        y_max == MaxOf({p[2] : p \in B})
        w == x_max - x_min
        h == y_max - y_min
        ap_is_y == CentroidGapY(M, B) > CentroidGapX(M, B)
        anterior_high_x == SumX(B) * Cardinality(M) > SumX(M) * Cardinality(B)
        anterior_high_y == SumY(B) * Cardinality(M) > SumY(M) * Cardinality(B)
        cx4 == IF ap_is_y THEN 2 * (x_min + x_max)
               ELSE IF anterior_high_x THEN 4 * x_max - w ELSE 4 * x_min + w
        cy4 == IF ~ap_is_y THEN 2 * (y_min + y_max)
               ELSE IF anterior_high_y THEN 4 * y_max - h ELSE 4 * y_min + h
        dx2(p) == (4 * p[1] - cx4) * (4 * p[1] - cx4)
        dy2(p) == (4 * p[2] - cy4) * (4 * p[2] - cy4)
    IN  {p \in B :
            /\ w > 0
            /\ h > 0
            /\ IF ap_is_y
               THEN 400 * dx2(p) * h * h + 1225 * dy2(p) * w * w <= 784 * w * w * h * h
               ELSE 1225 * dx2(p) * h * h + 400 * dy2(p) * w * w <= 784 * w * w * h * h}

\* C26: when the centroids of mask and body differ more along one array
\* axis, that axis is the AP axis and the ROI is the part of the body inside
\* the ellipse of 40% of the extent along it and 70% along the other axis,
\* whichever array axis it is: the reported voxel count is the size of that
\* ROI (no BMD key when it is empty).
C26_EllipseFollowsApAxis ==
    (/\ Returned
     /\ L1Analysed
     /\ L1Body # {}
     /\ CentroidGapX(L1Plane, L1Body) # CentroidGapY(L1Plane, L1Body))
    => ReportedRoiCount = Cardinality(EllipseByApAxis(L1Plane, L1Body))

\* ---- C27
\* round(5 mm / smaller in-plane spacing), at least 1 (zooms in half mm).
RoundedIterations == Max2(1, RoundDiv(10, Min2(L1File.zooms[1], L1File.zooms[2])))

RoundedBody == LargestComponent(Core(L1Plane, RoundedIterations))

\* C27: the L1 mask is eroded max(1, round(5 / min(x-spacing, y-spacing)))
\* times: the reported ROI is the one found in the body that this number
\* of passes leaves (no BMD key when that body or its ROI is empty).
C27_ErosionRounded ==
    (Returned /\ L1Analysed)
    => ReportedRoiCount =
          IF RoundedBody = {} THEN 0 ELSE Cardinality(roi_mask(L1Plane, RoundedBody))

\* ---- C28
\* C28: the reported classification is the one the thresholds give for the
\* reported (rounded) mean: Normal exactly when it is above 160 HU,
\* Osteopenia exactly when it is from 100 to 160 HU.
C28_MeanAndClassAgree ==
    (Returned /\ Has(results, "L1_bmd_classification"))
    => LET mean == results["L1_trabecular_HU_mean"][2]
           class == results["L1_bmd_classification"]
       IN  /\ mean > 16000 <=> class = Str("Normal")
           /\ (10000 <= mean /\ mean <= 16000) <=> class = Str("Osteopenia")

\* ---- C29
LobeResultKeys ==
    LobeEmphysemaKeys \cup {l \o "_total_voxels" : l \in LobeNames} \cup TotalLungKeys

\* C29: every returned result has lung_analysis_status, with one of the
\* values "Complete", "Incomplete or non-CT", "Error", and has a per-lobe or
\* total_lung_* key only when the status is "Complete".
C29_StatusAlwaysWritten ==
    Returned
    => /\ Has(results, "lung_analysis_status")
       /\ Status \in {Str("Complete"), Str("Incomplete or non-CT"), Str("Error")}
       /\ LobeResultKeys \cap DOMAIN results # {} => Status = Str("Complete")

C29_Witness ==
    /\ Returned
    /\ modality = "CT"
    /\ \A l \in LobeNames : Loads(LobeFile(l)) /\ LobeVolume(l) >= lobe_min_volumes_cm3(l)
    /\ \A l \in LobeNames : LobeFile(l).shape # case.ct.shape
    /\ Status = Str("Error")
    /\ LobeResultKeys \cap DOMAIN results = {}

\* ---- C30
\* The intensities of the eroded L1 body on the central slice.
L1BodyHU == {HU(case.ct, <<p[1], p[2], MiddleOf(ZIndices(L1File))>>) : p \in L1Body}

\* C30: the four BMD keys are all in the result or all absent; when they
\* are there the voxel count is at least 1 and is the number of ROI pixels
\* that lie in the eroded body of the central slice, and the mean lies
\* between the smallest and the largest intensity of that body.
C30_BmdKeysTogether ==
    Returned
    => /\ BmdKeys \cap DOMAIN results \in {{}, BmdKeys}
       /\ Has(results, "L1_trabecular_voxel_count")
            => /\ L1Analysed
               /\ results["L1_trabecular_voxel_count"][2] >= 1
               /\ results["L1_trabecular_voxel_count"][2] =
                     Cardinality(roi_mask(L1Plane, L1Body) \cap L1Body)
               /\ results["L1_trabecular_HU_mean"][2] >= MinOf(L1BodyHU)
               /\ results["L1_trabecular_HU_mean"][2] <= MaxOf(L1BodyHU)

C30_Witness ==
    /\ Returned
    /\ BmdKeys \subseteq DOMAIN results
    /\ results["L1_trabecular_voxel_count"][2] = 1
    /\ Cardinality(L1Body) = 6
    /\ <<1, 2>> \in L1Plane \ L1Body

====
